---- MODULE Spec2Model ----
(***************************************************************************)
(* TaskFlow sync engine (scripts/task-sync.mjs) as a state machine.        *)
(*                                                                         *)
(* Text is modelled at token level.  A text file is a sequence of lines;   *)
(* a line is a record                                                      *)
(*   kind "h"  a line "## <name>"                                          *)
(*   kind "t"  a line "- [<box>] (task:<id>)<toks>"                        *)
(*   kind "n"  a line "<indent>- note:<toks>"                              *)
(*   kind "o"  any other line, <name> being its text                       *)
(* and toks is a sequence of tokens: one whitespace character (sp), one    *)
(* bracket group "[v]" (tag) or one run of other characters (w).  The      *)
(* regular expressions of the parser are evaluated on these tokens with    *)
(* the greedy/backtracking order of the JavaScript engine.                 *)
(***************************************************************************)
EXTENDS Integers, Sequences, FiniteSets, TLC

\* ------------------------------------------------------------------ values

NULL == "NULL"

Sp == [k |-> "sp", v |-> " "]
Tag(v) == [k |-> "tag", v |-> v]
W(v) == [k |-> "w", v |-> v]

\* The JavaScript null/undefined of a text-valued field (title, notes).
NullText == <<[k |-> "null", v |-> ""]>>

IsSp(tok) == tok.k = "sp"
IsTag(tok) == tok.k = "tag"

HLine(name) == [kind |-> "h", box |-> "", id |-> "", toks |-> <<>>, name |-> name]
TLine(box, id, toks) == [kind |-> "t", box |-> box, id |-> id, toks |-> toks, name |-> ""]
NLine(toks) == [kind |-> "n", box |-> "", id |-> "", toks |-> toks, name |-> ""]
OLine(text) == [kind |-> "o", box |-> "", id |-> "", toks |-> <<>>, name |-> text]

\* String.prototype.trim / trimEnd on a token sequence.
RECURSIVE TrimStart(_)
TrimStart(s) ==
  IF s # <<>> /\ IsSp(Head(s)) THEN TrimStart(Tail(s)) ELSE s

RECURSIVE TrimEnd(_)
TrimEnd(s) ==
  IF s # <<>> /\ IsSp(s[Len(s)]) THEN TrimEnd(SubSeq(s, 1, Len(s) - 1)) ELSE s

Trim(s) == TrimEnd(TrimStart(s))

\* ------------------------------------------------------------------ parser

Statuses == {"backlog", "in_progress", "pending_validation", "done", "blocked"}
Priorities == {"P0", "P1", "P2", "P3", "P9"}

\* headerMatch[1].trim().toLowerCase() on the heading names of the model.
HeaderNormalize(name) ==
  CASE name \in {"In Progress", "IN PROGRESS", " in progress "} -> "in progress"
    [] name \in {"Pending Validation"} -> "pending validation"
    [] name \in {"Backlog", "BACKLOG", "backlog "} -> "backlog"
    [] name \in {"Done", "DONE"} -> "done"
    [] name \in {"Blocked"} -> "blocked"
    [] name \in {"Last Session"} -> "last session"
    [] OTHER -> name

\* STATUS_MAP[normalized] || null. The lookup goes through the prototype of the object
\* literal: "constructor" finds a function, which is not falsy.
STATUS_MAP(normalized) ==
  CASE normalized = "in progress" -> "in_progress"
    [] normalized = "pending validation" -> "pending_validation"
    [] normalized = "backlog" -> "backlog"
    [] normalized = "done" -> "done"
    [] normalized = "blocked" -> "blocked"
    [] normalized = "constructor" -> "[Function: Object]"
    [] OTHER -> NULL

\* /^## (.+)$/ : the heading text must hold at least one character.
HeaderMatch(line) == line.kind = "h" /\ line.name # ""

\* /^P\d$/
PriorityPattern == {"P0", "P1", "P2", "P3", "P4", "P5", "P6", "P7", "P8", "P9"}

\* The number of whitespace tokens of toks from position p on.
RECURSIVE WsRun(_, _)
WsRun(toks, p) ==
  IF p <= Len(toks) /\ IsSp(toks[p]) THEN 1 + WsRun(toks, p + 1) ELSE 0

\* TASK_RE after "(task:<id>)":  \s*(?:\[([^\]]*)\])?\s*(?:\[([^\]]*)\])?\s*(.+)$
\* A match is its five choices <<s1, g1, s2, g2, s3>>: the whitespace each \s*
\* takes and whether each optional group takes a bracket group.
TaskReMatches(toks) ==
  LET n == Len(toks)
      Group(p) == IF p <= n /\ IsTag(toks[p]) THEN {TRUE, FALSE} ELSE {FALSE}
      After(p, g) == IF g THEN p + 1 ELSE p
      S3(s1, g1, s2, g2) ==
        LET p4 == After(After(1 + s1, g1) + s2, g2)
        IN {<<s1, g1, s2, g2, s3>> : s3 \in {x \in 0..WsRun(toks, p4) : p4 + x <= n}}
      G2(s1, g1, s2) ==
        UNION {S3(s1, g1, s2, g2) : g2 \in Group(After(1 + s1, g1) + s2)}
      S2(s1, g1) ==
        UNION {G2(s1, g1, s2) : s2 \in 0..WsRun(toks, After(1 + s1, g1))}
      G1(s1) == UNION {S2(s1, g1) : g1 \in Group(1 + s1)}
  IN UNION {G1(s1) : s1 \in 0..WsRun(toks, 1)}

\* The engine tries the greedy alternative of each choice first and backtracks from
\* the last choice: c is preferred to d when it is greater at the first difference.
ReRank(b) == IF b THEN 1 ELSE 0

RePreferred(c, d) ==
  \/ c[1] > d[1]
  \/ c[1] = d[1] /\ ReRank(c[2]) > ReRank(d[2])
  \/ c[1] = d[1] /\ c[2] = d[2] /\ c[3] > d[3]
  \/ c[1] = d[1] /\ c[2] = d[2] /\ c[3] = d[3] /\ ReRank(c[4]) > ReRank(d[4])
  \/ c[1] = d[1] /\ c[2] = d[2] /\ c[3] = d[3] /\ c[4] = d[4] /\ c[5] > d[5]

\* The captures <<tag1, tag2, title>> of TASK_RE (NULL: the group did not take part).
TaskReCaptures(toks) ==
  LET ms == TaskReMatches(toks)
      c == CHOOSE m \in ms : \A d \in ms \ {m} : RePreferred(m, d)
      p1 == 1 + c[1]
      p2 == p1 + (IF c[2] THEN 1 ELSE 0)
      p3 == p2 + c[3]
      p4 == p3 + (IF c[4] THEN 1 ELSE 0)
      p5 == p4 + c[5]
  IN [tag1 |-> IF c[2] THEN toks[p1].v ELSE NULL,
      tag2 |-> IF c[4] THEN toks[p3].v ELSE NULL,
      title |-> SubSeq(toks, p5, Len(toks))]

TaskMatch(line) == line.kind = "t" /\ TaskReMatches(line.toks) # {}

\* for (const tag of [tag1, tag2]) { if (!tag) continue; ... }
ApplyTag(acc, tag) ==
  IF tag = NULL \/ tag = "" THEN acc
  ELSE IF tag \in PriorityPattern THEN [acc EXCEPT !.priority = tag]
  ELSE [acc EXCEPT !.model = tag]

\* A slip: the tags read by position, the first as priority and the second as owner.
MutClassifyTags(tag1, tag2) ==
  [priority |-> IF tag1 \in PriorityPattern THEN tag1 ELSE "P2",
   model |-> IF tag2 = NULL \/ tag2 = "" THEN NULL ELSE tag2]

ClassifyTags(tag1, tag2) ==
  ApplyTag(ApplyTag([priority |-> "P2", model |-> NULL], tag1), tag2)

\* /^\s+- note:\s*(.+)$/ then .trim(): the capture is what follows the whitespace
\* \s* keeps, and \s* gives back one character when it took the whole rest.
NoteOf(lines, i) ==
  IF i + 1 <= Len(lines) /\ lines[i + 1].kind = "n" /\ lines[i + 1].toks # <<>>
  THEN LET toks == lines[i + 1].toks
           ws == WsRun(toks, 1)
           keep == IF ws = Len(toks) THEN ws - 1 ELSE ws
       IN Trim(SubSeq(toks, keep + 1, Len(toks)))
  ELSE NullText

\* A slip: a checked box read as the status done.
MutTaskRecord(slug, lines, i, currentStatus, title, tags) ==
  [id |-> lines[i].id,
   project_id |-> slug,
   title |-> Trim(title),
   status |-> IF lines[i].box = "x" THEN "done" ELSE currentStatus,
   priority |-> tags.priority,
   owner_model |-> tags.model,
   notes |-> NoteOf(lines, i),
   source_file |-> slug]

\* tasks.push({ id, project_id, title: title.trim(), status, priority, owner_model, notes,
\* source_file })
TaskRecord(slug, lines, i, currentStatus, title, tags) ==
  [id |-> lines[i].id,
   project_id |-> slug,
   title |-> Trim(title),
   status |-> currentStatus,
   priority |-> tags.priority,
   owner_model |-> tags.model,
   notes |-> NoteOf(lines, i),
   source_file |-> slug]

\* const [, , id, tag1, tag2, title] = taskMatch, and the tags classified.
CapturedTask(slug, lines, i, currentStatus, m) ==
  TaskRecord(slug, lines, i, currentStatus, m.title, ClassifyTags(m.tag1, m.tag2))

ParsedTask(slug, lines, i, currentStatus) ==
  CapturedTask(slug, lines, i, currentStatus, TaskReCaptures(lines[i].toks))

RECURSIVE ParseFrom(_, _, _, _)
ParseFrom(slug, lines, i, currentStatus) ==
  IF i > Len(lines) THEN <<>>
  ELSE IF HeaderMatch(lines[i])
  THEN ParseFrom(slug, lines, i + 1, STATUS_MAP(HeaderNormalize(lines[i].name)))
  ELSE IF currentStatus # NULL /\ TaskMatch(lines[i])
  THEN <<ParsedTask(slug, lines, i, currentStatus)>> \o ParseFrom(slug, lines, i + 1, currentStatus)
  ELSE ParseFrom(slug, lines, i + 1, currentStatus)

parseTaskFile(slug, lines) == ParseFrom(slug, lines, 1, NULL)

\* ------------------------------------------------------------------ store reads

\* The task ids of the model, in localeCompare / ORDER BY id order.
TaskIds == <<"t1", "t2">>

Slugs == <<"a", "b">>

\* parts[1] \o parts[2] \o ... (push(...spread), md +=)
RECURSIVE Flatten(_)
Flatten(parts) ==
  IF parts = <<>> THEN <<>> ELSE Head(parts) \o Flatten(Tail(parts))

\* A slip: the list taken in the order given.
MutSortById(ts) == ts

\* [...tasks].sort((a, b) => a.id.localeCompare(b.id)): a stable sort on id.
SortById(ts) ==
  LET Bucket(id) == SelectSeq(ts, LAMBDA t : t.id = id)
  IN Flatten([n \in 1..Len(TaskIds) |-> Bucket(TaskIds[n])])

\* SELECT id, project_id, title, status, priority, owner_model, notes, source_file
\* FROM tasks_v2 ORDER BY id
DbRow(rows, id) ==
  [id |-> id,
   project_id |-> rows[id].project_id,
   title |-> rows[id].title,
   status |-> rows[id].status,
   priority |-> rows[id].priority,
   owner_model |-> rows[id].owner_model,
   notes |-> rows[id].notes,
   source_file |-> rows[id].source_file]

getDbTasks(rows) ==
  LET One(id) == IF id \in DOMAIN rows THEN <<DbRow(rows, id)>> ELSE <<>>
  IN Flatten([n \in 1..Len(TaskIds) |-> One(TaskIds[n])])

\* ------------------------------------------------------------------ hash

Bar == W("|")
Newline == W("\n")

OrEmpty(owner) == IF owner = NULL THEN "" ELSE owner
TextOrEmpty(text) == IF text = NullText THEN <<>> ELSE text
Word(s) == IF s = "" THEN <<>> ELSE <<W(s)>>

\* `${t.id}|${t.status}|${t.priority}|${t.owner_model || ''}|${t.title}|${t.notes || ''}`
HashLine(t) ==
  Word(t.id) \o <<Bar>> \o Word(t.status) \o <<Bar>> \o Word(t.priority) \o <<Bar>>
    \o Word(OrEmpty(t.owner_model)) \o <<Bar>> \o t.title \o <<Bar>> \o TextOrEmpty(t.notes)

RECURSIVE JoinLines(_, _)
JoinLines(ts, k) ==
  IF k > Len(ts) THEN <<>>
  ELSE IF k = Len(ts) THEN HashLine(ts[k])
  ELSE HashLine(ts[k]) \o <<Newline>> \o JoinLines(ts, k + 1)

\* The fingerprint is kept as the string that is digested: sha256 and the cut to 16
\* hexadecimal digits are taken to be injective on the strings of the model.
hashTasks(ts) == JoinLines(SortById(ts), 1)

\* ------------------------------------------------------------------ diff

NoTask ==
  [id |-> NULL, project_id |-> NULL, title |-> NullText, status |-> NULL,
   priority |-> NULL, owner_model |-> NULL, notes |-> NullText, source_file |-> NULL]

\* new Map(tasks.map(t => [t.id, t])): keys in first-insertion order, the last value of
\* each key.
RECURSIVE MapKeys(_, _)
MapKeys(ts, k) ==
  IF k > Len(ts) THEN <<>>
  ELSE IF \E j \in 1..(k - 1) : ts[j].id = ts[k].id THEN MapKeys(ts, k + 1)
  ELSE <<ts[k].id>> \o MapKeys(ts, k + 1)

MapHas(ts, id) == \E k \in 1..Len(ts) : ts[k].id = id

MapGet(ts, id) ==
  LET last == CHOOSE k \in 1..Len(ts) :
                ts[k].id = id /\ \A j \in (k + 1)..Len(ts) : ts[j].id # id
  IN ts[last]

OrNull(owner) == IF owner = "" THEN NULL ELSE owner

\* A slip: the note compared like the other fields.
MutChanges(ft, dt) ==
  (IF ft.status # dt.status THEN <<"status">> ELSE <<>>)
    \o (IF ft.priority # dt.priority THEN <<"priority">> ELSE <<>>)
    \o (IF OrNull(ft.owner_model) # OrNull(dt.owner_model) THEN <<"model">> ELSE <<>>)
    \o (IF ft.title # dt.title THEN <<"title changed">> ELSE <<>>)
    \o (IF ft.notes # dt.notes THEN <<"notes">> ELSE <<>>)

Changes(ft, dt) ==
  (IF ft.status # dt.status THEN <<"status">> ELSE <<>>)
    \o (IF ft.priority # dt.priority THEN <<"priority">> ELSE <<>>)
    \o (IF OrNull(ft.owner_model) # OrNull(dt.owner_model) THEN <<"model">> ELSE <<>>)
    \o (IF ft.title # dt.title THEN <<"title changed">> ELSE <<>>)

DiffEntry(type, id, changes, ft, dt) ==
  [type |-> type, id |-> id, changes |-> changes, fileTask |-> ft, dbTask |-> dt]

diffTasks(fileTasks, dbTasks) ==
  LET FileSide(id) ==
        IF ~MapHas(dbTasks, id)
        THEN <<DiffEntry("file_only", id, <<>>, MapGet(fileTasks, id), NoTask)>>
        ELSE LET ft == MapGet(fileTasks, id)
                 dt == MapGet(dbTasks, id)
             IN IF Changes(ft, dt) # <<>>
                THEN <<DiffEntry("changed", id, Changes(ft, dt), ft, dt)>>
                ELSE <<>>
      DbSide(id) ==
        IF ~MapHas(fileTasks, id)
        THEN <<DiffEntry("db_only", id, <<>>, NoTask, MapGet(dbTasks, id))>>
        ELSE <<>>
  IN Flatten([n \in 1..Len(MapKeys(fileTasks, 1)) |-> FileSide(MapKeys(fileTasks, 1)[n])])
       \o Flatten([n \in 1..Len(MapKeys(dbTasks, 1)) |-> DbSide(MapKeys(dbTasks, 1)[n])])

\* ------------------------------------------------------------------ time

\* Date.now() + 60_000, in seconds.
LockTTL == 60

DaySeconds == 24 * 60 * 60

\* The clock advances in steps of half a lease.
TickSeconds == LockTTL \div 2

\* The clock starts shortly before midnight UTC, so that a date change is in reach.
StartTime == DaySeconds - 3 * TickSeconds

MaxTicks == 4

\* new Date(t).toISOString():  "YYYY-MM-DDTHH:MM:SS.sssZ"
ToISOString(t) == [date |-> t \div DaySeconds, sep |-> "T", time |-> t % DaySeconds]

\* SQLite datetime('now'):  "YYYY-MM-DD HH:MM:SS"
SqlDatetime(t) == [date |-> t \div DaySeconds, sep |-> " ", time |-> t % DaySeconds]

NullTime == [date |-> -1, sep |-> "", time |-> -1]

\* The byte code of the character between the date and the time.
CharCode(sep) == IF sep = "T" THEN 84 ELSE 32

\* x < y on TEXT values (BINARY collation: byte by byte from the left).
TextLess(x, y) ==
  \/ x.date < y.date
  \/ x.date = y.date /\ CharCode(x.sep) < CharCode(y.sep)
  \/ x.date = y.date /\ x.sep = y.sep /\ x.time < y.time

\* ------------------------------------------------------------------ state

Procs == {1, 2}

Modes == {"files-to-db", "check", "db-to-files"}

VARIABLES
  now,          \* the wall clock, in seconds
  files,        \* tasks/<slug>-tasks.md: slug -> lines, for the files that exist
  projects,     \* table projects: id -> row
  tasks,        \* table tasks_v2: id -> row
  transitions,  \* table task_transitions_v2, in rowid order
  sync,         \* the row of sync_state
  proc,         \* the invocations of task-sync.mjs: their variables and position
  edits,        \* the edits made to the text so far
  synced,       \* history: the text the store was last synced from by a successful
                \* files-to-db run, while nothing has written the store since
  call          \* hashTasks or diffTasks called on their own: two task lists a and b,
                \* the function called and what it returned

vars == <<now, files, projects, tasks, transitions, sync, proc, edits, synced, call>>

store == <<projects, tasks, transitions, sync>>

NoFiles == [s \in {"none"} |-> <<>>]

\* signal is the SIGTERM or SIGINT the process has received and not yet handled.
\* edits0, repeat, trans0 and store0 are history, taken when the run reads both sides:
\* the number of edits made so far, whether the text is the one the store was last
\* synced from, the length of the transition log, and projects, tasks and transitions.
IdleProc ==
  [mode |-> "check", pc |-> "idle", lockAcquired |-> FALSE, fileTasks |-> <<>>,
   diffs |-> <<>>, idx |-> 0, exitCode |-> -1, result |-> "none", signal |-> "none",
   edits0 |-> 0, repeat |-> FALSE, trans0 |-> 0, store0 |-> <<>>]

EmptyMap == [x \in {} |-> NULL]

SyncStateInit ==
  [files_hash |-> NullText, db_hash |-> NullText, last_sync_at |-> NullTime,
   lock_owner |-> NULL, lock_until |-> NullTime, last_result |-> NULL]

\* ------------------------------------------------------------------ texts

TitleFix == <<W("fix")>>
NoteN1 == <<Sp, W("n1")>>
NoteN2 == <<Sp, W("n2"), Sp>>

TextOf(head, line, note) == <<OLine("# Tasks"), HLine(head), line>> \o note

\* "## Backlog / - [ ] (task:t1) [P2] fix /   - note: n1"
TextBacklogN1 == TextOf("Backlog", TLine(" ", "t1", <<Sp, Tag("P2"), Sp>> \o TitleFix), <<NLine(NoteN1)>>)
\* the task moved to In Progress, its note line blanked ("  - note: ")
TextProgressBlank == TextOf("In Progress", TLine(" ", "t1", <<Sp, Tag("P2"), Sp>> \o TitleFix), <<NLine(<<Sp>>)>>)
\* the task moved to In Progress, its note line removed
TextProgressNoNote == TextOf("IN PROGRESS", TLine(" ", "t1", <<Sp, Tag("P2"), Sp>> \o TitleFix), <<>>)
\* only the note edited
TextBacklogN2 == TextOf("Backlog", TLine(" ", "t1", <<Sp, Tag("P2"), Sp>> \o TitleFix), <<NLine(NoteN2)>>)
\* "## Done / - [x] (task:t1) [P1] [] [x] fix /   - note: n2"
TextDoneBracket == TextOf("Done", TLine("x", "t1", <<Sp, Tag("P1"), Sp, Tag(""), Sp, Tag("x"), Sp>> \o TitleFix), <<NLine(NoteN2)>>)
\* a priority outside the enumeration of the schema
TextBadPriority == TextOf("Backlog", TLine(" ", "t1", <<Sp, Tag("P5"), Sp>> \o TitleFix), <<>>)
\* no task line
TextNoTasks == <<OLine("# Tasks"), HLine("Backlog")>>
\* a second project: "- [ ] (task:t2) [codex] [P1] fix"
TextOther == TextOf("Blocked", TLine(" ", "t2", <<Sp, Tag("codex"), Sp, Tag("P1"), Sp>> \o TitleFix), <<>>)

\* the same task line twice
TextTwice ==
  TextOf("Backlog", TLine(" ", "t1", <<Sp, Tag("P2"), Sp>> \o TitleFix),
         <<TLine(" ", "t1", <<Sp, Tag("P2"), Sp>> \o TitleFix)>>)
\* two tasks, the second one with a priority outside the enumeration of the schema
TextSecondBad ==
  TextOf("Backlog", TLine(" ", "t1", <<Sp, Tag("P1"), Sp>> \o TitleFix),
         <<TLine(" ", "t2", <<Sp, Tag("P5"), Sp>> \o TitleFix)>>)

\* two tasks of one section, the one of higher priority with the greater id
TextPair ==
  TextOf("Backlog", TLine(" ", "t2", <<Sp, Tag("P1"), Sp>> \o TitleFix),
         <<TLine(" ", "t1", <<Sp, Tag("P2"), Sp>> \o TitleFix)>>)
\* the layout of the tasks template: "## Last Session" and a line under it before the
\* first status heading
TextLastSession ==
  <<OLine("# Tasks"), HLine("Last Session"), OLine("wip"), HLine("Backlog"),
    TLine(" ", "t1", <<Sp, Tag("P2"), Sp>> \o TitleFix)>>

DataTexts ==
  {<<"a", TextProgressBlank>>, <<"a", TextProgressNoNote>>, <<"a", TextBacklogN2>>,
   <<"a", TextDoneBracket>>, <<"a", TextBadPriority>>, <<"a", TextNoTasks>>,
   <<"b", TextOther>>, <<"a", TextTwice>>, <<"a", TextSecondBad>>,
   <<"a", TextPair>>, <<"a", TextLastSession>>, <<"b", TextBacklogN1>>}

LockTexts == {<<"a", TextBadPriority>>}

MaxEdits == 2

NoCall == [a |-> <<>>, b |-> <<>>, fn |-> "none", ret |-> <<>>]

Init ==
  /\ now = StartTime
  /\ files = [s \in {"a"} |-> TextBacklogN1]
  /\ projects = EmptyMap
  /\ tasks = EmptyMap
  /\ transitions = <<>>
  /\ sync = SyncStateInit
  /\ proc = [i \in Procs |-> IdleProc]
  /\ edits = 0
  /\ synced = NoFiles
  /\ call = NoCall

\* ------------------------------------------------------------------ lock

LockOwner(mode) == IF mode = "files-to-db" THEN "task-sync:files-to-db" ELSE "task-sync:db-to-files"

\* A slip: the comparison the other way round.
MutLockAvailable(row, t) ==
  \/ row.lock_owner = NULL
  \/ row.lock_until # NullTime /\ TextLess(SqlDatetime(t), row.lock_until)

\* WHERE id = 1 AND (lock_owner IS NULL OR lock_until < datetime('now'))
LockAvailable(row, t) ==
  \/ row.lock_owner = NULL
  \/ row.lock_until # NullTime /\ TextLess(row.lock_until, SqlDatetime(t))

\* SET lock_owner = ?, lock_until = ?  with  until = Date.now() + 60_000
LockTaken(row, mode, t) ==
  [row EXCEPT !.lock_owner = LockOwner(mode), !.lock_until = ToISOString(t + LockTTL)]

\* A slip: the outcome of the attempt left unrecorded.
MutLockReleased(row, t, result) ==
  [row EXCEPT !.lock_owner = NULL, !.lock_until = NullTime,
              !.last_sync_at = ToISOString(t)]

\* UPDATE sync_state SET lock_owner = NULL, lock_until = NULL, last_sync_at = ?, last_result = ?
LockReleased(row, t, result) ==
  [row EXCEPT !.lock_owner = NULL, !.lock_until = NullTime,
              !.last_sync_at = ToISOString(t), !.last_result = result]

Exit(p, code, result) ==
  [p EXCEPT !.pc = "exited", !.exitCode = code, !.result = result,
            !.lockAcquired = FALSE,
            !.fileTasks = <<>>, !.diffs = <<>>, !.idx = 0,
            !.trans0 = 0, !.store0 = <<>>]

\* A slip: check sent through the lease like the mutating modes.
MutLaunched(m) == [IdleProc EXCEPT !.mode = m, !.pc = "acquire"]

\* if (mode !== 'check') acquireLock()
Launched(m) ==
  [IdleProc EXCEPT !.mode = m, !.pc = IF m = "check" THEN "read" ELSE "acquire"]

\* node scripts/task-sync.mjs <m>
Start(i, m) ==
  /\ proc[i].pc = "idle"
  /\ proc' = [proc EXCEPT ![i] = Launched(m)]
  /\ UNCHANGED <<call, now, files, store, edits, synced>>

\* The same command again, once the invocation before it has ended.
Rerun(i, m) ==
  /\ proc[i].pc = "exited"
  /\ proc' = [proc EXCEPT ![i] = Launched(m)]
  /\ UNCHANGED <<call, now, files, store, edits, synced>>

\* A slip: the run goes on where the UPDATE changed no row.
MutAcquireLock(i) ==
  /\ proc[i].pc = "acquire"
  /\ IF LockAvailable(sync, now)
     THEN /\ sync' = LockTaken(sync, proc[i].mode, now)
          /\ proc' = [proc EXCEPT ![i].pc = "read", ![i].lockAcquired = TRUE]
     ELSE /\ sync' = sync
          /\ proc' = [proc EXCEPT ![i].pc = "read"]
  /\ UNCHANGED <<call, now, files, projects, tasks, transitions, edits, synced>>

acquireLock(i) ==
  /\ proc[i].pc = "acquire"
  /\ IF LockAvailable(sync, now)
     THEN /\ sync' = LockTaken(sync, proc[i].mode, now)
          /\ proc' = [proc EXCEPT ![i].pc = "read", ![i].lockAcquired = TRUE]
     ELSE /\ sync' = sync
          /\ proc' = [proc EXCEPT ![i] = Exit(proc[i], 1, "locked")]
  /\ UNCHANGED <<call, now, files, projects, tasks, transitions, edits, synced>>

\* ------------------------------------------------------------------ read and check

parseAllFiles(fs) ==
  LET One(slug) == IF slug \in DOMAIN fs THEN parseTaskFile(slug, fs[slug]) ELSE <<>>
  IN Flatten([n \in 1..Len(Slugs) |-> One(Slugs[n])])

\* main: parseAllFiles, getDbTasks, diffTasks; in check mode the verdict and the exit.
\* Where main goes with the parsed list and the differences: a check ends with its
\* verdict, a mutating run goes on to apply.
AfterRead(p, fileTasks, diffs) ==
  IF p.mode = "check"
  THEN IF diffs = <<>> THEN Exit(p, 0, "in sync") ELSE Exit(p, 1, "drift")
  ELSE IF p.mode = "files-to-db"
  THEN [p EXCEPT !.pc = "projects", !.fileTasks = fileTasks, !.diffs = diffs,
                 !.edits0 = edits, !.repeat = (files = synced),
                 !.trans0 = Len(transitions),
                 !.store0 = <<projects, tasks, transitions>>]
  ELSE [p EXCEPT !.pc = "project"]

\* const diffs = diffTasks(fileTasks, dbTasks)
Compared(p, fileTasks, dbTasks) == AfterRead(p, fileTasks, diffTasks(fileTasks, dbTasks))

ReadAll(i) ==
  /\ proc[i].pc = "read"
  /\ proc' = [proc EXCEPT ![i] = Compared(proc[i], parseAllFiles(files), getDbTasks(tasks))]
  /\ UNCHANGED <<call, now, files, store, edits, synced>>

\* ------------------------------------------------------------------ files-to-db

\* t.project_id.replace(/-/g, ' ').replace(/\b\w/g, c => c.toUpperCase()) on the slugs
\* of the model.
ProjectName(slug) == IF slug = "a" THEN "A" ELSE IF slug = "b" THEN "B" ELSE slug

\* A slip: no project is created.
MutWithMissingProjects(rows, fileTasks) == rows

\* INSERT OR IGNORE INTO projects (id, name, description, status, source_file)
\* VALUES (?, ?, '', 'active', ?)  for every project of the file tasks not yet known.
WithMissingProjects(rows, fileTasks) ==
  LET missing == {fileTasks[k].project_id : k \in 1..Len(fileTasks)} \ DOMAIN rows
  IN [s \in DOMAIN rows \cup missing |->
        IF s \in DOMAIN rows THEN rows[s]
        ELSE [name |-> ProjectName(s), description |-> "", status |-> "active",
              source_file |-> s]]

\* A slip: the table without the CHECK on priority.
MutUpsertAccepted(rows, projs, t) ==
  /\ t.status \in Statuses
  /\ t.id \in DOMAIN rows \/ t.project_id \in DOMAIN projs

\* The constraints of tasks_v2 on the row an upsert writes: the CHECKs on status and
\* priority, and the foreign key on project_id for a row that is inserted.
UpsertAccepted(rows, projs, t) ==
  /\ t.status \in Statuses
  /\ t.priority \in Priorities
  /\ t.id \in DOMAIN rows \/ t.project_id \in DOMAIN projs

\* A slip: the arguments of COALESCE the other way round.
MutCoalesceNotes(new, old) == IF old # NullText THEN old ELSE new

\* COALESCE(excluded.notes, tasks_v2.notes)
CoalesceNotes(new, old) == IF new # NullText THEN new ELSE old

\* A slip: updated_at set on every upsert.
MutUpdatedAt(old, t, at) == at

\* updated_at = CASE WHEN title, status, priority or owner differ THEN now ELSE old
UpdatedAt(old, t, at) ==
  IF \/ old.title # t.title
     \/ old.status # t.status
     \/ old.priority # t.priority
     \/ OrEmpty(old.owner_model) # OrEmpty(t.owner_model)
  THEN at ELSE old.updated_at

\* A slip: "status = excluded.status" left out of DO UPDATE SET.
MutUpdatedRow(old, t, at) ==
  [project_id |-> old.project_id, title |-> t.title, status |-> old.status,
   priority |-> t.priority, owner_model |-> t.owner_model,
   notes |-> CoalesceNotes(t.notes, old.notes), source_file |-> t.source_file,
   updated_at |-> UpdatedAt(old, t, at)]

\* ON CONFLICT(id) DO UPDATE SET ...: project_id is not among the columns set.
UpdatedRow(old, t, at) ==
  [project_id |-> old.project_id,
   title |-> t.title,
   status |-> t.status,
   priority |-> t.priority,
   owner_model |-> t.owner_model,
   notes |-> CoalesceNotes(t.notes, old.notes),
   source_file |-> t.source_file,
   updated_at |-> UpdatedAt(old, t, at)]

\* A slip: priority left out of the column list, so that its DEFAULT 'P2' applies.
MutInsertedRow(t, at) ==
  [project_id |-> t.project_id, title |-> t.title, status |-> t.status,
   priority |-> "P2", owner_model |-> t.owner_model, notes |-> t.notes,
   source_file |-> t.source_file, updated_at |-> at]

\* INSERT INTO tasks_v2 (...) VALUES (?, ?, ?, ?, ?, ?, ?, ?, now)
InsertedRow(t, at) ==
  [project_id |-> t.project_id, title |-> t.title, status |-> t.status,
   priority |-> t.priority, owner_model |-> t.owner_model, notes |-> t.notes,
   source_file |-> t.source_file, updated_at |-> at]

\* A slip: the table rebuilt from the file task, the other rows gone.
MutUpsertRow(rows, t, at) ==
  [id \in {t.id} |->
     IF t.id \in DOMAIN rows THEN UpdatedRow(rows[t.id], t, at) ELSE InsertedRow(t, at)]

\* INSERT INTO tasks_v2 ... ON CONFLICT(id) DO UPDATE SET ...
UpsertRow(rows, t, at) ==
  [id \in DOMAIN rows \cup {t.id} |->
     IF id # t.id THEN rows[id]
     ELSE IF id \in DOMAIN rows THEN UpdatedRow(rows[id], t, at)
     ELSE InsertedRow(t, at)]

\* INSERT INTO task_transitions_v2 (task_id, from_status, to_status, reason, actor)
Transition(id, from, to, reason) ==
  [task_id |-> id, from_status |-> from, to_status |-> to, reason |-> reason,
   actor |-> "sync"]

\* A slip: the new status written as the previous one too.
MutTransitionFor(d) ==
  IF d.type = "file_only"
  THEN <<Transition(d.id, NULL, d.fileTask.status, <<"added via file sync">>)>>
  ELSE IF d.type = "changed" /\ d.dbTask.status # d.fileTask.status
  THEN <<Transition(d.id, d.fileTask.status, d.fileTask.status, <<"file sync">> \o d.changes)>>
  ELSE <<>>

\* The transition a diff entry calls for, as a sequence of zero or one row.
TransitionFor(d) ==
  IF d.type = "file_only"
  THEN <<Transition(d.id, NULL, d.fileTask.status, <<"added via file sync">>)>>
  ELSE IF d.type = "changed" /\ d.dbTask.status # d.fileTask.status
  THEN <<Transition(d.id, d.dbTask.status, d.fileTask.status, <<"file sync">> \o d.changes)>>
  ELSE <<>>

\* The loop body skips db_only entries.
Applies(d) == d.type \in {"file_only", "changed"}

Dirty(changed) == IF changed THEN NoFiles ELSE synced

CreateProjects(i) ==
  /\ proc[i].pc = "projects"
  /\ projects' = WithMissingProjects(projects, proc[i].fileTasks)
  /\ proc' = [proc EXCEPT ![i].pc = "upsert", ![i].idx = 1, ![i].fileTasks = <<>>]
  /\ synced' = Dirty(projects' # projects)
  /\ UNCHANGED <<call, now, files, tasks, transitions, sync, edits>>

\* One turn of the loop up to and including upsert.run: the row is written, or the
\* statement throws and control passes to the catch of main.
ApplyUpsert(i) ==
  /\ proc[i].pc = "upsert"
  /\ proc[i].idx <= Len(proc[i].diffs)
  /\ LET d == proc[i].diffs[proc[i].idx]
     IN IF ~Applies(d)
        THEN /\ proc' = [proc EXCEPT ![i].idx = @ + 1]
             /\ UNCHANGED <<tasks, synced>>
        ELSE IF UpsertAccepted(tasks, projects, d.fileTask)
        THEN /\ tasks' = UpsertRow(tasks, d.fileTask, now)
             /\ proc' = [proc EXCEPT ![i].pc = "transition"]
             /\ synced' = NoFiles
        ELSE /\ proc' = [proc EXCEPT ![i].pc = "catch"]
             /\ UNCHANGED <<tasks, synced>>
  /\ UNCHANGED <<call, now, files, projects, transitions, sync, edits>>

\* A slip: the log rewritten to hold the new row alone.
MutApplyTransition(i) ==
  /\ proc[i].pc = "transition"
  /\ LET d == proc[i].diffs[proc[i].idx]
     IN /\ transitions' = IF TransitionFor(d) = <<>> THEN transitions ELSE TransitionFor(d)
        /\ synced' = Dirty(TransitionFor(d) # <<>>)
  /\ proc' = [proc EXCEPT ![i].pc = "upsert", ![i].idx = @ + 1]
  /\ UNCHANGED <<call, now, files, projects, tasks, sync, edits>>

\* The rest of the turn: insertTransition.run where the entry calls for it.
ApplyTransition(i) ==
  /\ proc[i].pc = "transition"
  /\ LET d == proc[i].diffs[proc[i].idx]
     IN /\ transitions' = transitions \o TransitionFor(d)
        /\ synced' = Dirty(TransitionFor(d) # <<>>)
  /\ proc' = [proc EXCEPT ![i].pc = "upsert", ![i].idx = @ + 1]
  /\ UNCHANGED <<call, now, files, projects, tasks, sync, edits>>

\* A slip: the store's fingerprint taken of the rows read before the apply.
MutUpdateHashes(i) ==
  /\ proc[i].pc = "upsert"
  /\ proc[i].idx > Len(proc[i].diffs)
  /\ sync' = [sync EXCEPT !.files_hash = hashTasks(parseAllFiles(files)),
                          !.db_hash = hashTasks(getDbTasks(proc[i].store0[2]))]
  /\ proc' = [proc EXCEPT ![i].pc = "release"]
  /\ UNCHANGED <<call, now, files, projects, tasks, transitions, edits, synced>>

\* UPDATE sync_state SET files_hash = ?, db_hash = ?  from a fresh parse and read.
UpdateHashes(i) ==
  /\ proc[i].pc = "upsert"
  /\ proc[i].idx > Len(proc[i].diffs)
  /\ sync' = [sync EXCEPT !.files_hash = hashTasks(parseAllFiles(files)),
                          !.db_hash = hashTasks(getDbTasks(tasks))]
  /\ proc' = [proc EXCEPT ![i].pc = "release"]
  /\ UNCHANGED <<call, now, files, projects, tasks, transitions, edits, synced>>

\* ------------------------------------------------------------------ release

\* releaseLock('ok') at the end of a mutating run. Main ends there: the process exits
\* with code 0, unless a signal has arrived, which the event loop has yet to look at.
ReleaseOk(i) ==
  /\ proc[i].pc = "release"
  /\ sync' = LockReleased(sync, now, "ok")
  /\ proc' = [proc EXCEPT ![i] =
        IF proc[i].signal = "none" THEN Exit(proc[i], 0, "ok")
        ELSE [Exit(proc[i], -1, "ok") EXCEPT !.pc = "loop"]]
  /\ synced' = IF proc[i].mode = "files-to-db"
               THEN (IF edits = proc[i].edits0 THEN files ELSE NoFiles)
               ELSE synced
  /\ UNCHANGED <<call, now, files, projects, tasks, transitions, edits>>

\* A slip: the catch exits without releasing.
MutCatchRelease(i) ==
  /\ proc[i].pc = "catch"
  /\ proc' = [proc EXCEPT ![i] = Exit(proc[i], 1, "failed")]
  /\ UNCHANGED <<call, now, files, projects, tasks, transitions, sync, edits, synced>>

\* catch (err): releaseLock(`failed: ${err.message}`), process.exit(1)
CatchRelease(i) ==
  /\ proc[i].pc = "catch"
  /\ sync' = LockReleased(sync, now, "failed")
  /\ proc' = [proc EXCEPT ![i] = Exit(proc[i], 1, "failed")]
  /\ UNCHANGED <<call, now, files, projects, tasks, transitions, edits, synced>>

\* ------------------------------------------------------------------ db-to-files

STATUS_ORDER == <<"in_progress", "pending_validation", "blocked", "backlog", "done">>

STATUS_HEADERS(section) ==
  CASE section = "in_progress" -> "In Progress"
    [] section = "pending_validation" -> "Pending Validation"
    [] section = "blocked" -> "Blocked"
    [] section = "backlog" -> "Backlog"
    [] section = "done" -> "Done"

\* The priorities in localeCompare order.
PriorityOrder == <<"P0", "P1", "P2", "P3", "P4", "P5", "P6", "P7", "P8", "P9">>

BlankLine == OLine("")

\* The lines before the first line that starts with "## ".
RECURSIVE HeaderLines(_, _)
HeaderLines(lines, k) ==
  IF k > Len(lines) \/ lines[k].kind = "h" THEN <<>>
  ELSE <<lines[k]>> \o HeaderLines(lines, k + 1)

\* headerLines.join('\n').trimEnd(): the empty lines at the end go.
RECURSIVE TrimEndLines(_)
TrimEndLines(lines) ==
  IF lines # <<>> /\ lines[Len(lines)] = BlankLine
  THEN TrimEndLines(SubSeq(lines, 1, Len(lines) - 1))
  ELSE lines

\* headers.get(slug) || `# Tasks: ${slug}`
HeaderOf(fs, slug) ==
  LET kept == IF slug \in DOMAIN fs THEN TrimEndLines(HeaderLines(fs[slug], 1)) ELSE <<>>
  IN IF kept = <<>> THEN <<OLine("# Tasks: <slug>")>> ELSE kept

\* `- ${checkbox} (task:${t.id}) [${t.priority}]${modelTag} ${t.title}` and the note line
TaskLines(t) ==
  <<TLine(IF t.status = "done" THEN "x" ELSE " ", t.id,
          <<Sp, Tag(t.priority)>>
            \o (IF t.owner_model \notin {NULL, ""} THEN <<Sp, Tag(t.owner_model)>> ELSE <<>>)
            \o <<Sp>> \o t.title)>>
    \o (IF t.notes \notin {NullText, <<>>} THEN <<NLine(<<Sp>> \o t.notes)>> ELSE <<>>)

\* A slip: the section's tasks left in the order of the store read, by id.
MutSectionTasks(ts, section) == SelectSeq(ts, LAMBDA t : t.status = section)

\* tasks.filter(t => t.status === section).sort(by priority, then by id)
SectionTasks(ts, section) ==
  LET ByPriority(p) ==
        SortById(SelectSeq(ts, LAMBDA t : t.status = section /\ t.priority = p))
  IN Flatten([n \in 1..Len(PriorityOrder) |-> ByPriority(PriorityOrder[n])])

SectionLines(ts, section) ==
  <<HLine(STATUS_HEADERS(section))>>
    \o Flatten([n \in 1..Len(SectionTasks(ts, section)) |-> TaskLines(SectionTasks(ts, section)[n])])
    \o <<BlankLine>>

\* md = header + '\n\n' + the five sections; the text ends with a line break.
Markdown(fs, dbTasks, slug) ==
  LET ts == SelectSeq(dbTasks, LAMBDA t : t.project_id = slug)
      Section(section) == SectionLines(ts, section)
  IN HeaderOf(fs, slug) \o <<BlankLine>> \o Flatten([n \in 1..Len(STATUS_ORDER) |-> Section(STATUS_ORDER[n])]) \o <<BlankLine>>

\* One file per row of projects; the files of other slugs stay as they are.
projectDbToFiles(fs, dbTasks, projs) ==
  [s \in DOMAIN fs \cup DOMAIN projs |->
     IF s \in DOMAIN projs THEN Markdown(fs, dbTasks, s) ELSE fs[s]]

ProjectDbToFiles(i) ==
  /\ proc[i].pc = "project"
  /\ files' = projectDbToFiles(files, getDbTasks(tasks), projects)
  /\ proc' = [proc EXCEPT ![i].pc = "release"]
  /\ UNCHANGED <<call, now, store, edits, synced>>

\* ------------------------------------------------------------------ environment

\* kill -9: the process ends where it is, without running the catch or a handler.
Kill(i) ==
  /\ proc[i].pc \notin {"idle", "exited"}
  /\ proc' = [proc EXCEPT ![i] = Exit(proc[i], 137, "killed")]
  /\ UNCHANGED <<call, now, files, store, edits, synced>>

Tick ==
  /\ now < StartTime + MaxTicks * TickSeconds
  /\ now' = now + TickSeconds
  /\ UNCHANGED <<call, files, store, proc, edits, synced>>

\* Somebody saves tasks/<slug>-tasks.md with new content.
Edit(slug, text) ==
  /\ edits < MaxEdits
  /\ IF slug \in DOMAIN files THEN files[slug] # text ELSE TRUE
  /\ files' = [s \in DOMAIN files \cup {slug} |-> IF s = slug THEN text ELSE files[s]]
  /\ edits' = edits + 1
  /\ UNCHANGED <<call, now, store, proc, synced>>

Signals == {"SIGTERM", "SIGINT"}

\* kill -TERM, kill -INT or Ctrl-C while the process runs. Main runs synchronously from
\* its first statement to its last: the signal waits for the event loop.
Signal(i, sig) ==
  /\ proc[i].pc \notin {"idle", "exited"}
  /\ proc[i].signal = "none"
  /\ proc' = [proc EXCEPT ![i].signal = sig]
  /\ UNCHANGED <<call, now, files, store, edits, synced>>

\* process.exit(signal === 'SIGTERM' ? 0 : 130)
SignalExitCode(sig) == IF sig = "SIGTERM" THEN 0 ELSE 130

\* The event loop runs after main and calls the handler of the signal.
handleSignal(i) ==
  /\ proc[i].pc = "loop"
  /\ proc[i].signal # "none"
  /\ sync' = IF proc[i].lockAcquired
             THEN LockReleased(sync, now, "interrupted")
             ELSE sync
  /\ proc' = [proc EXCEPT ![i] = Exit(proc[i], SignalExitCode(proc[i].signal), "signal")]
  /\ UNCHANGED <<call, now, files, projects, tasks, transitions, edits, synced>>

\* The process has no work left and ends before the event loop has looked at the
\* signal: the exit code of a main that ran to its end.
NaturalExit(i) ==
  /\ proc[i].pc = "loop"
  /\ proc' = [proc EXCEPT ![i] = Exit(proc[i], 0, "ok")]
  /\ UNCHANGED <<call, now, files, store, edits, synced>>

\* process.argv[2]: one of the modes, nothing, or something else.
Arguments == Modes \cup {"none", "bogus"}

\* What OPENCLAW_WORKSPACE (or the working directory) of the invocation points at.
Workspaces == {"ok", "no workspace", "no tasks directory", "no database"}

\* const mode = process.argv[2] || 'check'
ModeOf(arg) == IF arg = "none" THEN "check" ELSE arg

\* A slip: the check for the database file left out.
MutStartupError(arg, ws) ==
  IF ModeOf(arg) \notin Modes THEN "usage"
  ELSE IF ws \in {"no workspace", "no tasks directory"} THEN ws
  ELSE "none"

\* The checks before the store is opened, in their order; "none" when all pass.
StartupError(arg, ws) ==
  IF ModeOf(arg) \notin Modes THEN "usage"
  ELSE IF ws = "no workspace" THEN ws
  ELSE IF ws = "no tasks directory" THEN ws
  ELSE IF ws = "no database" THEN ws
  ELSE "none"

\* node scripts/task-sync.mjs [arg] in a workspace ws: process.exit(1) at the first
\* check that fails, else on to main.
Startup(i, arg, ws) ==
  /\ proc[i].pc = "idle"
  /\ proc' = [proc EXCEPT ![i] =
        IF StartupError(arg, ws) = "none"
        THEN Launched(ModeOf(arg))
        ELSE Exit([IdleProc EXCEPT !.mode = ModeOf(arg)], 1, StartupError(arg, ws))]
  /\ UNCHANGED <<call, now, files, store, edits, synced>>

Step(i) ==
  \/ acquireLock(i)
  \/ ReadAll(i)
  \/ CreateProjects(i)
  \/ ApplyUpsert(i)
  \/ ApplyTransition(i)
  \/ UpdateHashes(i)
  \/ ProjectDbToFiles(i)
  \/ ReleaseOk(i)
  \/ CatchRelease(i)

\* Two invocations, side by side or one after the other, the clock and unclean kills;
\* one edit of the text.
Next ==
  \/ \E i \in Procs, m \in Modes : Start(i, m)
  \/ \E i \in Procs : Step(i)
  \/ \E i \in Procs : Kill(i)
  \/ Tick
  \/ \E e \in LockTexts : Edit(e[1], e[2])

Spec == Init /\ [][Next]_vars

\* One invocation at a time, run to its end, on the full set of texts; the text may be
\* edited at any point of a run.
NextData ==
  \/ \E m \in Modes : Start(1, m)
  \/ \E m \in Modes : Rerun(1, m)
  \/ Step(1)
  \/ \E e \in DataTexts : Edit(e[1], e[2])

SpecData == Init /\ [][NextData]_vars

\* Two invocations from their startup to their exit, with signals and no unclean kill.
\* A process that is running takes its next step; so does the event loop.
NextExit ==
  \/ \E i \in Procs, arg \in Arguments, ws \in Workspaces : Startup(i, arg, ws)
  \/ \E i \in Procs : Step(i)
  \/ \E i \in Procs, sig \in Signals : Signal(i, sig)
  \/ \E i \in Procs : handleSignal(i)
  \/ \E i \in Procs : NaturalExit(i)
  \/ \E e \in LockTexts : Edit(e[1], e[2])

\* The steps of a running process that work on one row or one entry.
FairStep(i) ==
  \/ acquireLock(i)
  \/ CreateProjects(i)
  \/ ApplyUpsert(i)
  \/ ApplyTransition(i)
  \/ ReleaseOk(i)
  \/ CatchRelease(i)
  \/ handleSignal(i)
  \/ NaturalExit(i)

\* The steps that read the texts or the store whole.
WholeStep(i) == ReadAll(i) \/ UpdateHashes(i) \/ ProjectDbToFiles(i)

\* Exactly where WholeStep(i) is enabled.
AtWholeStep(i) ==
  \/ proc[i].pc \in {"read", "project"}
  \/ proc[i].pc = "upsert" /\ proc[i].idx > Len(proc[i].diffs)

\* Weak fairness of WholeStep(i), written out with AtWholeStep(i) for ENABLED.
FairWholeStep(i) == []<>(~AtWholeStep(i)) \/ []<><<WholeStep(i)>>_vars

\* A process that has started keeps running: main is one synchronous run of statements.
SpecExit ==
  /\ Init
  /\ [][NextExit]_vars
  /\ \A i \in Procs : WF_vars(FairStep(i))
  /\ \A i \in Procs : FairWholeStep(i)

\* ------------------------------------------------------------------ init-db

\* The statements of schema/taskflow.sql as splitStatements gives them, in order.
Statements ==
  <<[op |-> "pragma", name |-> "journal_mode"],
    [op |-> "pragma", name |-> "foreign_keys"],
    [op |-> "table", name |-> "projects"],
    [op |-> "table", name |-> "tasks_v2"],
    [op |-> "index", name |-> "idx_tasks_v2_project_status"],
    [op |-> "table", name |-> "task_transitions_v2"],
    [op |-> "index", name |-> "idx_transitions_task_id"],
    [op |-> "index", name |-> "idx_transitions_at"],
    [op |-> "table", name |-> "sync_state"],
    [op |-> "insert", name |-> "sync_state"],
    [op |-> "table", name |-> "legacy_key_map"],
    [op |-> "index", name |-> "idx_legacy_key_map_new_id"]>>

\* new DatabaseSync(dbPath) where no file was: no schema object, no row.
NoDb ==
  [objects |-> {}, wal |-> FALSE, projects |-> EmptyMap, tasks |-> EmptyMap,
   transitions |-> <<>>, sync_state |-> <<>>]

\* A slip: INSERT OR REPLACE in place of INSERT OR IGNORE.
MutExec(db, stmt) ==
  IF stmt.op = "pragma"
  THEN IF stmt.name = "journal_mode" THEN [db EXCEPT !.wal = TRUE] ELSE db
  ELSE IF stmt.op \in {"table", "index"}
  THEN [db EXCEPT !.objects = @ \cup {stmt.name}]
  ELSE [db EXCEPT !.sync_state = <<SyncStateInit>>]

\* db.exec(stmt). journal_mode = WAL stays with the file, foreign_keys with the
\* connection; CREATE ... IF NOT EXISTS leaves an object that is there, and its rows,
\* as they are; INSERT OR IGNORE INTO sync_state (id) VALUES (1) adds the row, every
\* other column NULL, unless the row is there.
Exec(db, stmt) ==
  IF stmt.op = "pragma"
  THEN IF stmt.name = "journal_mode" THEN [db EXCEPT !.wal = TRUE] ELSE db
  ELSE IF stmt.op \in {"table", "index"}
  THEN [db EXCEPT !.objects = @ \cup {stmt.name}]
  ELSE IF db.sync_state = <<>> THEN [db EXCEPT !.sync_state = <<SyncStateInit>>] ELSE db

\* for (const stmt of statements) db.exec(stmt)
RECURSIVE ExecAll(_, _, _)
ExecAll(db, stmts, k) ==
  IF k > Len(stmts) THEN db ELSE ExecAll(Exec(db, stmts[k]), stmts, k + 1)

initDb(db) == ExecAll(db, Statements, 1)

\* ------------------------------------------------------------------ calls

MaxRecords == 2

Record(id, project, status, priority, owner, title, notes) ==
  [id |-> id, project_id |-> project, title |-> title, status |-> status,
   priority |-> priority, owner_model |-> owner, notes |-> notes, source_file |-> project]

TitleA == <<W("a")>>

\* Task records as the parser and the store give them: a title and a note with the
\* delimiter of the fingerprint in them ("a" with "b|c", "a|b" with "c"), an empty and
\* an absent owner and note, one id in two projects, a second id.
Records ==
  {Record("t1", "a", "backlog", "P2", NULL, TitleA, <<W("b"), Bar, W("c")>>),
   Record("t1", "a", "backlog", "P2", NULL, <<W("a"), Bar, W("b")>>, <<W("c")>>),
   Record("t1", "a", "backlog", "P2", "", TitleA, <<>>),
   Record("t1", "a", "backlog", "P2", NULL, TitleA, NullText),
   Record("t1", "b", "done", "P1", "x", TitleA, NullText),
   Record("t2", "a", "backlog", "P2", NULL, TitleA, NullText),
   Record("t2", "b", "backlog", "P2", NULL, TitleA, <<W("n")>>)}

RecordSeqs == UNION {[1..n -> Records] : n \in 0..MaxRecords}

\* The position of id in the order of the ids.
IdRank(id) == CHOOSE n \in 1..Len(TaskIds) : TaskIds[n] = id

\* What SELECT ... ORDER BY id can return: one row per id, in the order of the ids.
IsDbResult(ts) == \A j, k \in 1..Len(ts) : j < k => IdRank(ts[j].id) < IdRank(ts[k].id)

\* What the parser can return: the owner of a record is absent or not empty.
IsParsed(ts) == \A k \in 1..Len(ts) : ts[k].owner_model # ""

InitCalls ==
  /\ now = StartTime
  /\ files = [s \in {"a"} |-> TextBacklogN1]
  /\ projects = EmptyMap
  /\ tasks = EmptyMap
  /\ transitions = <<>>
  /\ sync = SyncStateInit
  /\ proc = [i \in Procs |-> IdleProc]
  /\ edits = 0
  /\ synced = NoFiles
  /\ call \in {[NoCall EXCEPT !.a = xs, !.b = ys] : xs, ys \in RecordSeqs}

\* hashTasks(a) and hashTasks(b)
HashCall ==
  /\ call.fn = "none"
  /\ call' = [call EXCEPT !.fn = "hashTasks",
                          !.ret = <<hashTasks(call.a), hashTasks(call.b)>>]
  /\ UNCHANGED <<now, files, store, proc, edits, synced>>

\* diffTasks(a, b), a from the parser and b from the store
DiffCall ==
  /\ call.fn = "none"
  /\ IsParsed(call.a)
  /\ IsDbResult(call.b)
  /\ call' = [call EXCEPT !.fn = "diffTasks", !.ret = diffTasks(call.a, call.b)]
  /\ UNCHANGED <<now, files, store, proc, edits, synced>>

\* The checkbox markers a task line can carry and still match TASK_RE: [ ] and [x].
Boxes == {" ", "x"}

\* The text with the checkbox of its k-th line, where that is a task line, set to
\* boxes[k].
Reboxed(lines, boxes) ==
  [k \in 1..Len(lines) |->
     IF lines[k].kind = "t" THEN [lines[k] EXCEPT !.box = boxes[k]] ELSE lines[k]]

\* The bracket contents a task line is given: two that match /^P\d$/, one of them
\* outside the enumeration of the schema, two that do not match, and the empty one.
TagValues == {"P1", "P7", "codex", "gpt", ""}

\* One task line under a heading, with no, one or two bracket tags before its title.
TagTexts ==
  LET Bracket(tags, k) == IF k <= Len(tags) THEN <<Tag(tags[k]), Sp>> ELSE <<>>
      Line(tags) == TLine(" ", "t1", <<Sp>> \o Bracket(tags, 1) \o Bracket(tags, 2) \o TitleFix)
  IN {<<"a", TextOf("Backlog", Line(tags), <<>>)>> :
        tags \in UNION {[1..n -> TagValues] : n \in 0..2}}

\* A task line under a heading that is no status heading: one that follows a status
\* section, and one whose name is a property every object has.
HeadingTexts ==
  {<<"a", <<OLine("# Tasks"), HLine("Backlog"), HLine("Notes"),
            TLine(" ", "t1", <<Sp, Tag("P2"), Sp>> \o TitleFix)>>>>,
   <<"a", TextOf("constructor", TLine(" ", "t1", <<Sp, Tag("P2"), Sp>> \o TitleFix), <<>>)>>}

\* parseTaskFile on a text and on the same text with other checkboxes. Its inputs are
\* texts: it is called where no record lists were drawn.
ParseCall ==
  /\ call = NoCall
  /\ \E e \in DataTexts \cup TagTexts \cup HeadingTexts : \E boxes \in [1..Len(e[2]) -> Boxes] :
       call' = [a |-> parseTaskFile(e[1], e[2]),
                b |-> parseTaskFile(e[1], Reboxed(e[2], boxes)),
                fn |-> "parseTaskFile",
                ret |-> <<e[2], Reboxed(e[2], boxes)>>]
  /\ UNCHANGED <<now, files, store, proc, edits, synced>>

\* The sync_state row as task-sync leaves it: untouched, a lease taken, a run that
\* ended well with its fingerprints written, a run that failed.
SyncRows ==
  {SyncStateInit,
   LockTaken(SyncStateInit, "files-to-db", StartTime),
   [LockReleased(LockTaken(SyncStateInit, "files-to-db", StartTime), StartTime, "ok")
      EXCEPT !.files_hash = <<W("h")>>, !.db_hash = <<W("h")>>],
   LockReleased(LockTaken(SyncStateInit, "db-to-files", StartTime), StartTime, "failed")}

\* The task rows a files-to-db run leaves of the records ts.
RECURSIVE Upserts(_, _)
Upserts(ts, k) ==
  IF k = 0 THEN EmptyMap ELSE UpsertRow(Upserts(ts, k - 1), ts[k], StartTime)

\* An initialised store that task-sync has worked on.
Stored(row, ts) ==
  [initDb(NoDb) EXCEPT
     !.projects = WithMissingProjects(EmptyMap, ts),
     !.tasks = Upserts(ts, Len(ts)),
     !.transitions = [k \in 1..Len(ts) |->
                        Transition(ts[k].id, NULL, ts[k].status, <<"added via file sync">>)],
     !.sync_state = <<row>>]

\* The stores init-db is run on: none yet, and initialised ones.
Databases ==
  {NoDb} \cup {Stored(row, ts) : row \in SyncRows, ts \in {xs \in RecordSeqs : IsDbResult(xs)}}

\* init-db on a store, and once more on what it left.
InitDbCall ==
  /\ call = NoCall
  /\ \E db \in Databases :
       call' = [a |-> <<db>>, b |-> <<initDb(db)>>, fn |-> "init-db",
                ret |-> <<initDb(initDb(db))>>]
  /\ UNCHANGED <<now, files, store, proc, edits, synced>>

\* A slip: a plain INSERT into a table without its primary key.
MutEnsureRow(rows) == rows \o <<SyncStateInit>>

\* INSERT OR IGNORE INTO sync_state (id, lock_owner, lock_until) VALUES (1, NULL, NULL):
\* the primary key with CHECK (id = 1) lets the row in where there is none.
EnsureRow(rows) == IF rows = <<>> THEN <<SyncStateInit>> ELSE rows

\* The statements of task-sync on sync_state, each an UPDATE ... WHERE id = 1 on the
\* rows of the table: acquireLock (after its INSERT OR IGNORE), releaseLock and the
\* fingerprints of syncFilesToDb.
SyncOps == {"acquire", "release", "fail", "hashes"}

SyncOp(rows, op) ==
  IF op = "acquire"
  THEN [k \in 1..Len(EnsureRow(rows)) |->
          IF LockAvailable(EnsureRow(rows)[k], StartTime)
          THEN LockTaken(EnsureRow(rows)[k], "files-to-db", StartTime)
          ELSE EnsureRow(rows)[k]]
  ELSE IF op = "release" THEN [k \in 1..Len(rows) |-> LockReleased(rows[k], StartTime, "ok")]
  ELSE IF op = "fail" THEN [k \in 1..Len(rows) |-> LockReleased(rows[k], StartTime, "failed")]
  ELSE [k \in 1..Len(rows) |-> [rows[k] EXCEPT !.files_hash = <<W("h")>>, !.db_hash = <<W("h")>>]]

RECURSIVE SyncOpsDone(_, _, _)
SyncOpsDone(rows, ops, k) ==
  IF k = 0 THEN rows ELSE SyncOp(SyncOpsDone(rows, ops, k - 1), ops[k])

MaxOps == 2

\* Statements of task-sync on the sync_state table of an initialised store.
SyncStateCall ==
  /\ call = NoCall
  /\ \E row \in SyncRows : \E n \in 1..MaxOps : \E ops \in [1..n -> SyncOps] :
       call' = [a |-> <<row>>, b |-> SyncOpsDone(<<row>>, ops, n), fn |-> "sync_state",
                ret |-> ops]
  /\ UNCHANGED <<now, files, store, proc, edits, synced>>

NextCalls == HashCall \/ DiffCall \/ ParseCall \/ InitDbCall \/ SyncStateCall

SpecCalls == InitCalls /\ [][NextCalls]_vars

\* ------------------------------------------------------------------ properties

\* The instant an ISO timestamp names, in seconds.
IsoTime(x) == x.date * DaySeconds + x.time

\* A lease is recorded and its expiry has not passed.
LeaseUnexpired == sync.lock_owner # NULL /\ now < IsoTime(sync.lock_until)

FilesToDb(i) == proc[i].mode = "files-to-db"

\* The run of i has applied its whole diff and has not released the lease yet.
Applied(i) == FilesToDb(i) /\ proc[i].pc = "release"

DiffIndex(i) == 1..Len(proc[i].diffs)

Blank(notes) == notes \in {NullText, <<>>}

\* The transitions the run of i has appended.
Appended(i) == SubSeq(transitions, proc[i].trans0 + 1, Len(transitions))

\* C1: an attempt to acquire the lease while a lease is recorded and unexpired ends
\* the invocation at once with exit code 1, the lease, the store and the text as they
\* were; an attempt on a free lease acquires it and leaves it recorded and unexpired,
\* so that of two invocations racing for a free lease the second fails.
C1_ContendedAcquireFails ==
  [][\A i \in Procs :
       /\ (acquireLock(i) /\ LeaseUnexpired)
            => /\ proc'[i].pc = "exited"
               /\ proc'[i].exitCode = 1
               /\ ~proc'[i].lockAcquired
               /\ UNCHANGED <<files, projects, tasks, transitions, sync>>
       /\ (acquireLock(i) /\ sync.lock_owner = NULL)
            => /\ proc'[i].lockAcquired
               /\ proc'[i].pc = "read"
               /\ LeaseUnexpired']_vars

\* An invocation was turned away while the other one holds the unexpired lease.
C1_Witness ==
  \E i, j \in Procs :
    /\ i # j
    /\ proc[i].result = "locked" /\ proc[i].exitCode = 1
    /\ proc[j].lockAcquired
    /\ LeaseUnexpired

\* C2: when the invocation that acquired the recorded lease has ended without releasing
\* it, an attempt made after the lease's expiry (60 s after its acquisition) succeeds.
C2_ExpiredLeaseAcquired ==
  [][\A i \in Procs :
       (/\ acquireLock(i)
        /\ sync.lock_owner # NULL
        /\ \A j \in Procs : ~proc[j].lockAcquired
        /\ now > IsoTime(sync.lock_until))
         => proc'[i].lockAcquired]_vars

\* C3: a files-to-db run on the text the store was last synced from, with no edit
\* since the run read the text, executes no upsert, leaves tasks, transitions and
\* projects as they are and persists the fingerprints that were persisted before.
C3_Idempotent ==
  [][\A i \in Procs :
       (FilesToDb(i) /\ proc[i].repeat /\ proc[i].edits0 = edits /\ Step(i))
         => /\ tasks' = tasks
            /\ transitions' = transitions
            /\ projects' = projects
            /\ sync'.files_hash = sync.files_hash
            /\ sync'.db_hash = sync.db_hash
            /\ proc'[i].pc \notin {"transition", "catch"}]_vars

\* A second run on the same text has completed, on a store that holds a task.
C3_Witness ==
  \E i \in Procs :
    /\ FilesToDb(i) /\ proc[i].repeat /\ proc[i].edits0 = edits
    /\ proc[i].result = "ok"
    /\ tasks # EmptyMap
    /\ sync.files_hash # NullText

\* C4: no step deletes a task, and a step of a files-to-db run leaves every field of a
\* task that its diff classes as db_only unchanged.
C4_NonDeletion ==
  [][/\ \A id \in DOMAIN tasks : id \in DOMAIN tasks'
     /\ \A i \in Procs :
          (FilesToDb(i) /\ Step(i))
            => \A k \in DiffIndex(i) :
                 proc[i].diffs[k].type = "db_only"
                   => tasks'[proc[i].diffs[k].id] = tasks[proc[i].diffs[k].id]]_vars

\* A run has applied a diff that adds one task and finds another one only in the store.
C4_Witness ==
  \E i \in Procs :
    /\ Applied(i)
    /\ \E k \in DiffIndex(i) :
         proc[i].diffs[k].type = "db_only" /\ proc[i].diffs[k].id \in DOMAIN tasks
    /\ \E k \in DiffIndex(i) : proc[i].diffs[k].type = "file_only"

\* C5: a step of a files-to-db run leaves a non-empty stored note unchanged when the
\* text of the run carries no note, or an empty or blank one, for the task.
C5_NoteNotErased ==
  [][\A i \in Procs :
       (FilesToDb(i) /\ Step(i))
         => \A k \in DiffIndex(i) :
              LET d == proc[i].diffs[k]
              IN (d.type = "changed" /\ Blank(d.fileTask.notes) /\ ~Blank(tasks[d.id].notes))
                   => tasks'[d.id].notes = tasks[d.id].notes]_vars

\* The task the text as it is gives for id: the last one parsed with that id.
TextTask(id) == MapGet(parseAllFiles(files), id)

TextIds == {parseAllFiles(files)[k].id : k \in 1..Len(parseAllFiles(files))}

\* C6 as claimed: when a files-to-db run has applied its diff, with no edit since it
\* read the text, every task for which the text carries a non-empty note has that
\* note in the store.
C6_NoteOverwrittenAlways ==
  \A i \in Procs :
    (Applied(i) /\ proc[i].edits0 = edits)
      => \A id \in TextIds :
           ~Blank(TextTask(id).notes) => tasks[id].notes = TextTask(id).notes

\* C6 as amended: when a files-to-db run has applied its diff, every task that the
\* diff adds or classes as changed (status, priority, owner or title differ) and for
\* which the text of the run carries a non-empty note has that note in the store.
C6_NoteOverwrittenWhenChanged ==
  \A i \in Procs :
    Applied(i)
      => \A k \in DiffIndex(i) :
           LET d == proc[i].diffs[k]
           IN (Applies(d) /\ ~Blank(d.fileTask.notes))
                => tasks[d.id].notes = d.fileTask.notes

\* A run has replaced a stored note by a different note of the text.
C6_Witness ==
  \E i \in Procs :
    /\ Applied(i)
    /\ \E k \in DiffIndex(i) :
         LET d == proc[i].diffs[k]
         IN /\ d.type = "changed"
            /\ ~Blank(d.fileTask.notes)
            /\ ~Blank(d.dbTask.notes)
            /\ d.dbTask.notes # d.fileTask.notes
            /\ tasks[d.id].notes = d.fileTask.notes

FromTo(tr) == <<tr.task_id, tr.from_status, tr.to_status>>

FromTos(trs) == [n \in 1..Len(trs) |-> FromTo(trs[n])]

\* The status changes of the tasks the diff found in the store, in diff order.
StatusChanges(i) ==
  LET One(d) ==
        IF d.type = "changed" /\ d.dbTask.status # d.fileTask.status
        THEN <<<<d.id, d.dbTask.status, d.fileTask.status>>>>
        ELSE <<>>
  IN Flatten([n \in 1..Len(proc[i].diffs) |-> One(proc[i].diffs[n])])

AddedIds(i) == {proc[i].diffs[k].id : k \in {x \in DiffIndex(i) : proc[i].diffs[x].type = "file_only"}}

\* C7: when a files-to-db run has applied its diff, the transitions it appended for
\* the tasks that were in the store already are, in order, one for each such task
\* whose text status differs from the stored status the run read, from that stored
\* status to the text status, and no other.
C7_AuditComplete ==
  \A i \in Procs :
    Applied(i)
      => FromTos(SelectSeq(Appended(i), LAMBDA tr : tr.task_id \notin AddedIds(i)))
           = StatusChanges(i)

\* A task has gone from backlog to in_progress and on to done in two later runs.
C7_Witness ==
  \E i \in Procs :
    /\ Applied(i)
    /\ FromTos(transitions)
         = <<<<"t1", NULL, "backlog">>, <<"t1", "backlog", "in_progress">>,
             <<"t1", "in_progress", "done">>>>

\* C8: when a files-to-db run has applied its diff, every id the diff classes as
\* file_only has a row with the status, priority, owner, title and note of the text,
\* and the run has appended exactly one transition for it, from no status to the
\* task's status with actor sync.
C8_AddedInserted ==
  \A i \in Procs :
    Applied(i)
      => \A k \in DiffIndex(i) :
           LET d == proc[i].diffs[k]
               mine == SelectSeq(Appended(i), LAMBDA tr : tr.task_id = d.id)
           IN d.type = "file_only"
                => /\ d.id \in DOMAIN tasks
                   /\ tasks[d.id].status = d.fileTask.status
                   /\ tasks[d.id].priority = d.fileTask.priority
                   /\ tasks[d.id].owner_model = d.fileTask.owner_model
                   /\ tasks[d.id].title = d.fileTask.title
                   /\ tasks[d.id].notes = d.fileTask.notes
                   /\ Len(mine) = 1
                   /\ mine[1].from_status = NULL
                   /\ mine[1].to_status = d.fileTask.status
                   /\ mine[1].actor = "sync"

\* A run has added a task with a priority, an owner and a note of its own.
C8_Witness ==
  \E i \in Procs :
    /\ Applied(i)
    /\ \E k \in DiffIndex(i) :
         LET d == proc[i].diffs[k]
         IN /\ d.type = "file_only"
            /\ d.fileTask.priority # "P2"
            /\ d.fileTask.owner_model # NULL
    /\ \E k \in DiffIndex(i) :
         proc[i].diffs[k].type = "file_only" /\ ~Blank(proc[i].diffs[k].fileTask.notes)

\* C9: the text db-to-files leaves, when every text file is the file of a known
\* project and so is regenerated, has an empty diff against the store.
C9_RoundTrip ==
  [][\A i \in Procs :
       (ProjectDbToFiles(i) /\ DOMAIN files \subseteq DOMAIN projects)
         => diffTasks(parseAllFiles(files'), getDbTasks(tasks')) = <<>>]_vars

\* The fields a fingerprint covers, an absent owner or note counting as an empty one.
Fields(t) ==
  <<t.id, t.status, t.priority, OrEmpty(t.owner_model), t.title, TextOrEmpty(t.notes)>>

FieldSet(ts) == {Fields(ts[k]) : k \in 1..Len(ts)}

\* C10: a check that reads sides which differ in the ids they hold or in a field of a
\* task reports drift and exits non-zero.
C10_DriftDetected ==
  [][\A i \in Procs :
       (/\ ReadAll(i)
        /\ proc[i].mode = "check"
        /\ FieldSet(parseAllFiles(files)) # FieldSet(getDbTasks(tasks)))
         => proc'[i].result = "drift" /\ proc'[i].exitCode # 0]_vars

\* Both sides hold the same ids, each with the same status, priority, owner, title and
\* note.
FieldEqual == FieldSet(parseAllFiles(files)) = FieldSet(getDbTasks(tasks))

\* C11: a check that reads field-equal sides reports them in sync and exits with code
\* 0, and the fingerprint of the text it computes is the fingerprint of the store.
C11_FieldEqualInSync ==
  [][\A i \in Procs :
       (ReadAll(i) /\ proc[i].mode = "check" /\ FieldEqual)
         => /\ proc'[i].result = "in sync"
            /\ proc'[i].exitCode = 0
            /\ hashTasks(parseAllFiles(files)) = hashTasks(getDbTasks(tasks))]_vars

\* C12: a step of a check leaves the text, tasks, transitions, projects and every field
\* of sync_state as they are and ends the run with its verdict, whatever lease is
\* recorded.
C12_CheckReadOnly ==
  [][\A i \in Procs :
       (proc[i].mode = "check" /\ Step(i))
         => /\ UNCHANGED <<files, projects, tasks, transitions, sync>>
            /\ proc'[i].pc = "exited"
            /\ proc'[i].result \in {"in sync", "drift"}]_vars

\* A check has found the sides in sync while the files-to-db run that wrote the store
\* still holds its unexpired lease.
C12_Witness ==
  \E i, j \in Procs :
    /\ i # j
    /\ proc[i].mode = "check" /\ proc[i].pc = "exited" /\ proc[i].result = "in sync"
    /\ proc[j].lockAcquired
    /\ LeaseUnexpired

\* C13: when a files-to-db run fails on a record that is not the first of its batch,
\* projects, tasks and transitions are as they were when the run read them.
C13_AllOrNothing ==
  \A i \in Procs :
    (FilesToDb(i) /\ proc[i].pc = "catch" /\ proc[i].idx > 1)
      => <<projects, tasks, transitions>> = proc[i].store0

\* C14: a step in which a mutating run that holds the lease ends with a failure leaves the
\* lease with no owner and no expiry and the failure in last_result, and the process
\* exits with a code other than 0.
C14_FailureReleases ==
  [][\A i \in Procs :
       (proc[i].lockAcquired /\ proc[i].mode # "check"
          /\ proc'[i].pc = "exited" /\ proc'[i].result = "failed")
         => /\ sync'.lock_owner = NULL
            /\ sync'.lock_until = NullTime
            /\ sync'.last_result = "failed"
            /\ proc'[i].exitCode # 0]_vars

C14_Witness ==
  \E i \in Procs :
    /\ proc[i].mode = "files-to-db"
    /\ proc[i].pc = "exited"
    /\ proc[i].result = "failed"
    /\ proc[i].exitCode = 1
    /\ sync.lock_owner = NULL
    /\ sync.lock_until = NullTime
    /\ sync.last_result = "failed"

Outcomes == {"ok", "failed", "interrupted"}

\* C15: every step in which an invocation stops holding the lease it acquired (main ran
\* to its end, the catch ran, or the signal handler ran) leaves the lease with no owner
\* and no expiry, an outcome in last_result and the time of the step in last_sync_at;
\* and an invocation that holds the lease eventually holds it no more.
C15_LeaseAlwaysReleased ==
  /\ [][\A i \in Procs :
          (proc[i].lockAcquired /\ ~proc'[i].lockAcquired)
            => /\ sync'.lock_owner = NULL
               /\ sync'.lock_until = NullTime
               /\ sync'.last_result \in Outcomes
               /\ sync'.last_sync_at = ToISOString(now)]_vars
  /\ \A i \in Procs : proc[i].lockAcquired ~> ~proc[i].lockAcquired
  /\ (sync.lock_owner # NULL) ~> (sync.lock_owner = NULL)

C15_Witness ==
  \E i \in Procs :
    /\ proc[i].mode # "check"
    /\ proc[i].pc = "exited"
    /\ proc[i].result = "signal"
    /\ sync.lock_owner = NULL
    /\ sync.lock_until = NullTime
    /\ sync.last_result = "ok"
    /\ sync.last_sync_at = ToISOString(now)

\* C16: an invocation whose mode argument is not a mode, or whose workspace, tasks
\* directory or store file is missing, ends in its first step with a code other than 0,
\* without having reached the lease and with texts, store and lease row unchanged.
C16_StartupErrorsFatal ==
  [][\A i \in Procs, arg \in Arguments, ws \in Workspaces :
       (Startup(i, arg, ws) /\ (ModeOf(arg) \notin Modes \/ ws # "ok"))
         => /\ proc'[i].pc = "exited"
            /\ proc'[i].exitCode # 0
            /\ ~proc'[i].lockAcquired
            /\ UNCHANGED <<files, projects, tasks, transitions, sync>>]_vars

C16_Witness ==
  \E i, j \in Procs :
    /\ proc[i].pc = "exited" /\ proc[i].result = "no database" /\ proc[i].exitCode = 1
    /\ proc[j].pc = "exited" /\ proc[j].result = "usage" /\ proc[j].exitCode = 1

\* C17: an invocation that has exited with code 0 is a check that found no drift or a
\* mutating run whose apply ran to its end; and every invocation that ended otherwise
\* than "in sync" or "ok" (drift, contention, a startup error, a failure, a signal that
\* ended it) has exited with a code other than 0.
C17_ExitCodes ==
  \A i \in Procs :
    proc[i].pc = "exited"
      => /\ proc[i].exitCode = 0
              => \/ proc[i].mode = "check" /\ proc[i].result = "in sync"
                 \/ proc[i].mode \in Modes \ {"check"} /\ proc[i].result \in {"ok", "signal"}
         /\ proc[i].result \notin {"in sync", "ok"} => proc[i].exitCode # 0

\* A record with an absent owner or note read as the record with the empty one.
Canon(r) ==
  [r EXCEPT !.owner_model = IF @ = NULL THEN "" ELSE @,
            !.notes = IF @ = NullText THEN <<>> ELSE @]

Count(ts, r) == Cardinality({k \in 1..Len(ts) : Canon(ts[k]) = r})

\* b is a permutation of a, absent and empty owners and notes taken as the same.
IsPermutation(a, b) ==
  /\ Len(a) = Len(b)
  /\ \A k \in 1..Len(a) : Count(a, Canon(a[k])) = Count(b, Canon(a[k]))

DistinctIds(ts) == \A j, k \in 1..Len(ts) : j # k => ts[j].id # ts[k].id

\* C18 as stated: hashTasks gives a sequence of records and any permutation of it, absent
\* and empty owners and notes taken as the same, the same fingerprint.
C18_OrderIndependent ==
  (call.fn = "hashTasks" /\ IsPermutation(call.a, call.b)) => call.ret[1] = call.ret[2]

\* C18 amended: hashTasks gives a sequence of records with pairwise distinct ids and any
\* permutation of it, absent and empty owners and notes taken as the same, the same
\* fingerprint.
C18_OrderIndependentDistinctIds ==
  (call.fn = "hashTasks" /\ IsPermutation(call.a, call.b) /\ DistinctIds(call.a))
    => call.ret[1] = call.ret[2]

C18_Witness ==
  /\ call.fn = "hashTasks"
  /\ IsPermutation(call.a, call.b)
  /\ DistinctIds(call.a)
  /\ Len(call.a) = 2
  /\ call.a[1].id = call.b[2].id
  /\ call.a[1].owner_model = "" /\ call.b[2].owner_model = NULL
  /\ call.a[1].notes = <<>> /\ call.b[2].notes = NullText
  /\ call.ret[1] = call.ret[2]

\* The fields of a record that the fingerprint is taken of.
Projected(r) ==
  <<r.id, r.status, r.priority, Canon(r).owner_model, r.title, Canon(r).notes>>

ProjectedSet(ts) == {Projected(ts[k]) : k \in 1..Len(ts)}

\* C19: two lists of records whose sets of projected fields (id, status, priority, owner,
\* title, note) differ are given different strings to digest by hashTasks.
C19_Sensitive ==
  (call.fn = "hashTasks" /\ ProjectedSet(call.a) # ProjectedSet(call.b))
    => call.ret[1] # call.ret[2]

IdsOf(ts) == {ts[k].id : k \in 1..Len(ts)}

\* The record a list holds for an id: the one furthest down.
LastOf(ts, id) ==
  LET ks == {k \in 1..Len(ts) : ts[k].id = id}
  IN ts[CHOOSE k \in ks : \A j \in ks : j <= k]

\* Status, priority, owner (absent and empty taken as the same) or title differ.
FourDiffer(f, s) ==
  \/ f.status # s.status
  \/ f.priority # s.priority
  \/ Canon(f).owner_model # Canon(s).owner_model
  \/ f.title # s.title

HasEntry(d, id, type) == \E k \in 1..Len(d) : d[k].id = id /\ d[k].type = type

\* C20: in the result of diffTasks every id has at most one entry; it has a "file_only"
\* entry exactly when only the file list holds it, a "db_only" entry exactly when only the
\* store list holds it, and a "changed" entry exactly when both hold it and status,
\* priority, owner or title differ; so an id both hold with those four equal has no
\* entry, whatever its note and project.
C20_DiffPartition ==
  call.fn = "diffTasks"
    => LET a == call.a
           b == call.b
           d == call.ret
       IN /\ \A k \in 1..Len(d) : d[k].type \in {"file_only", "db_only", "changed"}
          /\ \A k \in 1..Len(d) : d[k].id \in IdsOf(a) \cup IdsOf(b)
          /\ \A id \in IdsOf(a) \cup IdsOf(b) :
               /\ Cardinality({k \in 1..Len(d) : d[k].id = id}) <= 1
               /\ HasEntry(d, id, "file_only") <=> id \in IdsOf(a) \ IdsOf(b)
               /\ HasEntry(d, id, "db_only") <=> id \in IdsOf(b) \ IdsOf(a)
               /\ HasEntry(d, id, "changed")
                    <=> /\ id \in IdsOf(a) \cap IdsOf(b)
                        /\ FourDiffer(LastOf(a, id), LastOf(b, id))

C20_Witness ==
  /\ call.fn = "diffTasks"
  /\ \E id \in IdsOf(call.a) \cap IdsOf(call.b) :
       /\ LastOf(call.a, id).notes # LastOf(call.b, id).notes
       /\ LastOf(call.a, id).project_id # LastOf(call.b, id).project_id
       /\ \A k \in 1..Len(call.ret) : call.ret[k].id # id
  /\ \E k \in 1..Len(call.ret) : call.ret[k].type = "changed"

\* C21: the step in which a files-to-db run has applied its last entry and goes on to
\* release leaves in files_hash the fingerprint of the tasks parsed from the text as it
\* is and in db_hash the fingerprint of the store's tasks as they are after the run's
\* changes; and the step in which the run ends with "ok", the text not edited since the
\* run read it, leaves both so.
C21_HashesPersisted ==
  [][\A i \in Procs :
       /\ (FilesToDb(i) /\ proc[i].pc = "upsert" /\ proc'[i].pc = "release")
            => /\ sync'.files_hash = hashTasks(parseAllFiles(files'))
               /\ sync'.db_hash = hashTasks(getDbTasks(tasks'))
       /\ (FilesToDb(i) /\ proc[i].pc = "release" /\ proc'[i].result = "ok"
             /\ edits = proc[i].edits0)
            => /\ sync'.files_hash = hashTasks(parseAllFiles(files'))
               /\ sync'.db_hash = hashTasks(getDbTasks(tasks'))]_vars

C21_Witness ==
  \E i \in Procs :
    /\ Applied(i)
    /\ proc[i].store0[2] # tasks
    /\ DOMAIN proc[i].store0[2] # {}
    /\ sync.files_hash = hashTasks(parseAllFiles(files))
    /\ sync.db_hash = hashTasks(getDbTasks(tasks))
    /\ sync.db_hash # hashTasks(getDbTasks(proc[i].store0[2]))

\* The slugs of the file tasks a run of i has read.
FileSlugs(i) == {proc[i].fileTasks[k].project_id : k \in 1..Len(proc[i].fileTasks)}

\* C22: every task of the store references a project of the store, always; no step
\* removes or changes a project row; the step of a files-to-db run that creates projects
\* adds exactly the slugs of its file tasks that had no row, each with status active and
\* the name derived from the slug; and an upsert that is rejected is not rejected for
\* its project.
C22_ProjectSynthesis ==
  /\ [](\A id \in DOMAIN tasks : tasks[id].project_id \in DOMAIN projects)
  /\ [][\A i \in Procs :
          /\ \A s \in DOMAIN projects : s \in DOMAIN projects' /\ projects'[s] = projects[s]
          /\ (FilesToDb(i) /\ proc[i].pc = "projects" /\ proc'[i].pc = "upsert")
               => /\ DOMAIN projects' = DOMAIN projects \cup FileSlugs(i)
                  /\ \A s \in DOMAIN projects' \ DOMAIN projects :
                       /\ projects'[s].status = "active"
                       /\ projects'[s].name = ProjectName(s)
          /\ (FilesToDb(i) /\ proc[i].pc = "upsert" /\ proc'[i].pc = "catch")
               => LET t == proc[i].diffs[proc[i].idx].fileTask
                  IN t.id \in DOMAIN tasks \/ t.project_id \in DOMAIN projects]_vars

C22_Witness ==
  \E i \in Procs :
    /\ Applied(i)
    /\ DOMAIN proc[i].store0[1] # {}
    /\ \E id \in DOMAIN tasks \ DOMAIN proc[i].store0[2] :
         /\ tasks[id].project_id \notin DOMAIN proc[i].store0[1]
         /\ projects[tasks[id].project_id].status = "active"

\* C23: two texts that differ in nothing but the checkboxes ([ ] or [x]) of their task
\* lines are parsed to the same sequence of records.
C23_CheckboxIgnored ==
  call.fn = "parseTaskFile" => call.a = call.b

C23_Witness ==
  /\ call.fn = "parseTaskFile"
  /\ call.ret[1] # call.ret[2]
  /\ \E k \in 1..Len(call.ret[1]) :
       call.ret[1][k].kind = "t" /\ call.ret[1][k].box = " " /\ call.ret[2][k].box = "x"
  /\ call.a # <<>>
  /\ call.a = call.b

\* The position of the one task line of a text (0 when it has none or several).
OnlyTaskLine(lines) ==
  LET ks == {k \in 1..Len(lines) : lines[k].kind = "t"}
  IN IF Cardinality(ks) = 1 THEN CHOOSE k \in ks : TRUE ELSE 0

\* The contents of the bracket groups of a task line, in order.
BracketsOf(toks) ==
  LET ks == {k \in 1..Len(toks) : IsTag(toks[k])}
      Nth(n) == CHOOSE k \in ks : Cardinality({j \in ks : j < k}) = n - 1
  IN [n \in 1..Cardinality(ks) |-> toks[Nth(n)].v]

\* The parse of a text whose one task line has at most two bracket groups and a
\* title after them: the text's brackets and the record read from it.
TagCase ==
  LET lines == call.ret[1]
      k == OnlyTaskLine(lines)
  IN /\ call.fn = "parseTaskFile"
     /\ k # 0
     /\ Len(call.a) = 1
     /\ Len(BracketsOf(lines[k].toks)) <= 2
     /\ ~IsTag(lines[k].toks[Len(lines[k].toks)])
     /\ ~IsSp(lines[k].toks[Len(lines[k].toks)])

C25_PriorityEnumerated ==
  call.fn = "parseTaskFile" =>
    \A k \in 1..Len(call.a) : call.a[k].priority \in Priorities

\* The members of a set of positions, ascending.
Ascending(S) ==
  [n \in 1..Cardinality(S) |-> CHOOSE k \in S : Cardinality({j \in S : j < k}) = n - 1]

\* The names of the "## " headings of a text, in order.
HeadingNames(text) ==
  LET hs == Ascending({k \in 1..Len(text) : text[k].kind = "h"})
  IN [n \in 1..Len(hs) |-> text[hs[n]].name]

\* The status the heading over line k of a text stands for (NULL: no heading over it,
\* or not a status heading).
SectionOf(text, k) ==
  LET hs == {j \in 1..(k - 1) : text[j].kind = "h"}
  IN IF hs = {} THEN NULL
     ELSE STATUS_MAP(HeaderNormalize(text[CHOOSE j \in hs : \A h \in hs : h <= j].name))

\* The place of a value in a sequence that holds it.
RankIn(seq, v) == CHOOSE n \in 1..Len(seq) : seq[n] = v

\* Row x comes before row y by priority, then by id.
RowBefore(rows, x, y) ==
  \/ RankIn(PriorityOrder, rows[x].priority) < RankIn(PriorityOrder, rows[y].priority)
  \/ /\ rows[x].priority = rows[y].priority
     /\ RankIn(TaskIds, x) < RankIn(TaskIds, y)

\* The text is the canonical one of project s over the task rows.
Canonical(text, s, rows) ==
  LET tl == {k \in 1..Len(text) : text[k].kind = "t"}
      mine == {id \in DOMAIN rows : rows[id].project_id = s}
  IN /\ HeadingNames(text) = <<"In Progress", "Pending Validation", "Blocked", "Backlog", "Done">>
     /\ \A id \in mine :
          \E k \in tl :
            /\ text[k].id = id
            /\ \A j \in tl : text[j].id = id => j = k
            /\ SectionOf(text, k) = rows[id].status
            /\ text[k].box = "x" <=> rows[id].status = "done"
     /\ \A j, k \in tl :
          (/\ j < k
           /\ text[j].id \in mine
           /\ text[k].id \in mine
           /\ SectionOf(text, j) = SectionOf(text, k))
            => RowBefore(rows, text[j].id, text[k].id)

\* C26: db-to-files writes, for every known project, a text with the five status
\* sections, each once, in the order in_progress, pending_validation, blocked,
\* backlog, done; every stored task of the project is in it exactly once, under the
\* section of its stored status, the tasks of a section ordered by priority and then
\* by id, the box checked exactly when the status is done.
C26_CanonicalProjection ==
  [][\A i \in Procs :
       (proc[i].pc = "project" /\ proc'[i].pc = "release")
         => \A s \in DOMAIN projects : s \in DOMAIN files' /\ Canonical(files'[s], s, tasks)]_vars

\* db-to-files has written a project with two tasks in one section: the task of
\* higher priority comes first although its id is the greater one, and the text read
\* before had one section only.
C26_Witness ==
  \E i \in Procs :
    /\ proc[i].mode = "db-to-files"
    /\ proc[i].pc = "release"
    /\ {"t1", "t2"} \subseteq DOMAIN tasks
    /\ tasks["t1"].project_id = "a" /\ tasks["t2"].project_id = "a"
    /\ tasks["t1"].status = tasks["t2"].status
    /\ RowBefore(tasks, "t2", "t1")
    /\ Canonical(files["a"], "a", tasks)
    /\ \E j, k \in 1..Len(files["a"]) :
         j < k /\ files["a"][j].kind = "t" /\ files["a"][j].id = "t2"
               /\ files["a"][k].kind = "t" /\ files["a"][k].id = "t1"

\* The lines of a text before its first status heading.
RECURSIVE Preamble(_, _)
Preamble(text, k) ==
  IF k > Len(text) THEN <<>>
  ELSE IF text[k].kind = "h" /\ STATUS_MAP(HeaderNormalize(text[k].name)) # NULL THEN <<>>
  ELSE <<text[k]>> \o Preamble(text, k + 1)

\* The text begins with the given lines.
StartsWith(text, lines) ==
  Len(lines) <= Len(text) /\ SubSeq(text, 1, Len(lines)) = lines

\* C27: when db-to-files rewrites the text of a project, every line in front of the
\* first status heading of the old text, an unrecognised "## " heading and the lines
\* under it included, is at the start of the new text unchanged (empty lines at the
\* end of the preamble aside).
C27_PreamblePreserved ==
  [][\A i \in Procs :
       (proc[i].pc = "project" /\ proc'[i].pc = "release")
         => \A s \in DOMAIN projects \cap DOMAIN files :
              StartsWith(files'[s], TrimEndLines(Preamble(files[s], 1)))]_vars

\* The store has the tables task-sync works on and its sync_state row.
Initialised(db) ==
  /\ {"projects", "tasks_v2", "task_transitions_v2", "sync_state"} \subseteq db.objects
  /\ Len(db.sync_state) = 1

\* C28: init-db is idempotent. On an initialised store it leaves every project, task
\* and transition row and the sync_state row (lease owner, lease expiry, fingerprints,
\* last result) as they are; it ends with exactly one sync_state row; and run twice
\* from nothing it leaves the store it leaves when run once.
C28_InitDbIdempotent ==
  call.fn = "init-db" =>
    /\ Len(call.b[1].sync_state) = 1
    /\ call.ret = call.b
    /\ Initialised(call.a[1]) =>
         /\ call.b[1].projects = call.a[1].projects
         /\ call.b[1].tasks = call.a[1].tasks
         /\ call.b[1].transitions = call.a[1].transitions
         /\ call.b[1].sync_state = call.a[1].sync_state

\* init-db was run on an initialised store holding task rows and a lease: the store
\* is as it was.
C28_Witness ==
  /\ call.fn = "init-db"
  /\ Initialised(call.a[1])
  /\ DOMAIN call.a[1].tasks # {}
  /\ call.a[1].sync_state[1].lock_owner # NULL
  /\ call.b = call.a

\* init-db was run where no store was: one row, every column of it empty.
C28_WitnessScratch ==
  /\ call.fn = "init-db"
  /\ call.a[1] = NoDb
  /\ call.b[1].sync_state = <<SyncStateInit>>

\* The status a heading name stands for when it is one of the five canonical names,
\* whatever its case (NULL otherwise).
CanonicalStatus(name) ==
  IF STATUS_MAP(HeaderNormalize(name)) \in Statuses
  THEN STATUS_MAP(HeaderNormalize(name)) ELSE NULL

\* The status of the last status heading over line k of a text (NULL: none over it).
StatusOver(text, k) ==
  LET hs == {j \in 1..(k - 1) : text[j].kind = "h" /\ CanonicalStatus(text[j].name) # NULL}
  IN IF hs = {} THEN NULL
     ELSE CanonicalStatus(text[CHOOSE j \in hs : \A h \in hs : h <= j].name)

\* C29: the status context of the parser changes at the five status headings only.
\* A task line in front of the first status heading gives no record; every well-formed
\* task line after one gives a record with the status of the last status heading
\* over it, whatever other headings or text lie between.
C29_StatusContext ==
  call.fn = "parseTaskFile" =>
    LET text == call.ret[1]
        ks == Ascending({k \in 1..Len(text) :
                           TaskMatch(text[k]) /\ StatusOver(text, k) # NULL})
    IN /\ Len(call.a) = Len(ks)
       /\ \A n \in 1..Len(ks) :
            /\ call.a[n].id = text[ks[n]].id
            /\ call.a[n].status = StatusOver(text, ks[n])

\* The file task of the diff entry process i is applying.
FileTaskAt(i) == proc[i].diffs[proc[i].idx].fileTask

\* C30: files-to-db advances the updated_at of a task only if title, status, priority
\* or owner differ between the text and the store for that task. A stored task
\* without such a difference keeps updated_at and every other column, and the rows
\* of the other tasks stay as they are: a run that finds nothing to change leaves
\* the tasks table as it was.
C30_UpdatedAtOnChange ==
  [][/\ tasks' # tasks =>
          \E i \in Procs : FilesToDb(i) /\ proc[i].pc = "upsert" /\ proc'[i].pc = "transition"
     /\ \A i \in Procs :
          (FilesToDb(i) /\ proc[i].pc = "upsert" /\ proc'[i].pc = "transition") =>
            \A id \in DOMAIN tasks :
              /\ id \in DOMAIN tasks'
              /\ tasks'[id] # tasks[id] =>
                   id = FileTaskAt(i).id /\ FourDiffer(FileTaskAt(i), tasks[id])]_vars

\* Two runs read the same text before either wrote. Both have upserted the task: the
\* second upsert met the row of the first, without a difference, and the row has
\* the updated_at of the first, which lies in the past.
C30_Witness ==
  \E i, j \in Procs :
    /\ i # j
    /\ FilesToDb(i) /\ proc[i].pc = "transition"
    /\ FilesToDb(j) /\ proc[j].pc = "transition"
    /\ FileTaskAt(i) = FileTaskAt(j)
    /\ FileTaskAt(i).id \in DOMAIN tasks
    /\ ~FourDiffer(FileTaskAt(i), tasks[FileTaskAt(i).id])
    /\ tasks[FileTaskAt(i).id].updated_at < now

\* C31: transitions are write-once. Over runs of every mode, ending well or not, the
\* log grows by appending only: every step leaves the rows it finds, with their
\* fields, at their places, and adds new ones after them.
C31_TransitionsAppendOnly ==
  [][/\ Len(transitions') >= Len(transitions)
     /\ SubSeq(transitions', 1, Len(transitions)) = transitions]_vars

\* A task was added and later moved to another status: the log holds both rows, the
\* one of the insertion first.
C31_Witness ==
  /\ Len(transitions) >= 2
  /\ transitions[1].from_status = NULL
  /\ transitions[2].task_id = transitions[1].task_id
  /\ transitions[2].from_status = transitions[1].to_status
  /\ transitions[2].to_status # transitions[1].to_status

\* C32: in every state of the store a read of the tasks gives one row per id, also
\* where the text declares an id on several lines or in several files, and the
\* status and the priority of every row are of their five values.
C32_TaskRowsWellFormed ==
  /\ DistinctIds(getDbTasks(tasks))
  /\ Len(getDbTasks(tasks)) = Cardinality(DOMAIN tasks)
  /\ \A id \in DOMAIN tasks :
       tasks[id].status \in Statuses /\ tasks[id].priority \in Priorities

\* A run has applied a text that declares one id more than once: the store holds
\* the id once.
C32_Witness ==
  \E i \in Procs :
    /\ Applied(i)
    /\ edits = proc[i].edits0
    /\ ~DistinctIds(parseAllFiles(files))
    /\ \A k \in 1..Len(parseAllFiles(files)) : parseAllFiles(files)[k].id \in DOMAIN tasks
    /\ Len(getDbTasks(tasks)) < Len(parseAllFiles(files))

\* C33: the sync_state row is there and is the only one. After the bootstrap, through
\* any sequence of lease acquisitions, releases and applies, the table holds exactly
\* one row.
C33_SyncRowSingleton ==
  /\ call.fn = "sync_state" => Len(call.b) = 1
  /\ call.fn = "init-db" => Len(call.b[1].sync_state) = 1 /\ Len(call.ret[1].sync_state) = 1

\* A lease was taken on the row and released: the row is the one that was there,
\* with the result of the run in it.
C33_WitnessReleased ==
  /\ call.fn = "sync_state"
  /\ call.ret = <<"acquire", "release">>
  /\ Len(call.a) = 1 /\ Len(call.b) = 1
  /\ call.b[1].lock_owner = NULL
  /\ call.b[1].last_result = "ok"

\* A step writes tasks, transitions, projects, the fingerprints or, as a run does,
\* a text file.
RunWrites ==
  \/ projects' # projects
  \/ tasks' # tasks
  \/ transitions' # transitions
  \/ sync'.files_hash # sync.files_hash
  \/ sync'.db_hash # sync.db_hash
  \/ files' # files /\ edits' = edits

\* Invocation i is between its acquisition of the lease and its release.
InBracket(i) ==
  /\ proc[i].mode \in {"files-to-db", "db-to-files"}
  /\ proc[i].lockAcquired
  /\ proc[i].pc \notin {"idle", "acquire", "exited"}

\* C34: the lease brackets a mutating run. The read of text and store for the diff
\* and every write to tasks, transitions, projects, fingerprints and text files is
\* a step of an invocation that has acquired the lease and not yet released it; an
\* invocation that has not acquired the lease writes nothing.
C34_LeaseBrackets ==
  [][/\ RunWrites => \E i \in Procs : proc'[i] # proc[i] /\ InBracket(i)
     /\ \A i \in Procs :
          (/\ proc[i].mode # "check"
           /\ proc[i].pc = "read"
           /\ proc'[i].pc \in {"projects", "project"}) => InBracket(i)]_vars

\* One invocation has written the store under its lease; the other one found the
\* lease taken, ended there and wrote nothing.
C34_Witness ==
  \E i, j \in Procs :
    /\ i # j
    /\ InBracket(i)
    /\ proc[i].pc = "release"
    /\ DOMAIN tasks # {}
    /\ proc[j].mode # "check"
    /\ proc[j].pc = "exited"
    /\ proc[j].result = "locked"

\* C35: an invocation clears the lease only if it is the one that holds it. Where the
\* row names the lease of another invocation that has acquired it and is still at
\* work (the owner recorded is of that invocation's mode and not of the mode of the
\* one that steps), no step of an invocation resets owner and expiry.
C35_OnlyHolderClears ==
  [][\A i, j \in Procs :
       (/\ i # j
        /\ proc'[i] # proc[i]
        /\ InBracket(j)
        /\ sync.lock_owner = LockOwner(proc[j].mode)
        /\ proc[i].mode # proc[j].mode)
         => ~(sync.lock_owner # NULL /\ sync'.lock_owner = NULL)]_vars

\* The transitions of task id, in insertion order, form a chain that ends at the
\* stored status of the task.
ChainOk(id) ==
  LET ks == Ascending({k \in 1..Len(transitions) : transitions[k].task_id = id})
  IN /\ Len(ks) >= 1
     /\ transitions[ks[1]].from_status = NULL
     /\ \A n \in 2..Len(ks) :
          transitions[ks[n]].from_status = transitions[ks[n - 1]].to_status
     /\ transitions[ks[Len(ks)]].to_status = tasks[id].status

\* C36: the audit trail is a chain. With no invocation at work, the transitions of
\* every stored task begin with one that has no from_status, each later one starts
\* at the status the one before it ended at, and the last one ends at the status
\* stored for the task.
C36_AuditChain ==
  (\A i \in Procs : proc[i].pc \in {"idle", "exited"})
    => \A id \in DOMAIN tasks : ChainOk(id)

\* C37: after a mutating run of either direction that ends well, the fingerprints in
\* sync_state are those of the text and of the store as they are when the lease is
\* released (stated for runs during which nobody edits a text).
C37_FingerprintsAtRelease ==
  [][\A i \in Procs :
       (/\ proc[i].mode \in {"files-to-db", "db-to-files"}
        /\ proc[i].pc = "release"
        /\ proc'[i].result = "ok"
        /\ edits = 0)
         => /\ sync'.files_hash = hashTasks(parseAllFiles(files'))
            /\ sync'.db_hash = hashTasks(getDbTasks(tasks'))]_vars

\* The slugs of the text sources that declare task id.
DeclaredIn(fileTasks, id) ==
  {fileTasks[k].project_id : k \in {n \in 1..Len(fileTasks) : fileTasks[n].id = id}}

\* C38: after a files-to-db run that ended well, every task the text declares (in one
\* source) is stored with the project and the source location of the source that
\* declares it, also where its line was moved from the file of one project to that
\* of another with no other field changed.
C38_StoredWhereDeclared ==
  \A i \in Procs :
    (Applied(i) /\ edits = proc[i].edits0) =>
      \A k \in 1..Len(parseAllFiles(files)) :
        Cardinality(DeclaredIn(parseAllFiles(files), parseAllFiles(files)[k].id)) = 1 =>
          /\ parseAllFiles(files)[k].id \in DOMAIN tasks
          /\ tasks[parseAllFiles(files)[k].id].project_id = parseAllFiles(files)[k].project_id
          /\ tasks[parseAllFiles(files)[k].id].source_file = parseAllFiles(files)[k].source_file

====
